---- MODULE Spec2Model ----
(***************************************************************************)
(* Model of the query-engine tier of analysis-view-vscode-extension:       *)
(* the catalog tables (database.rs), the ingestion pipeline                *)
(* (dataset_manager.rs, storage.rs), the DataFusion adapter                *)
(* (datafusion_engine.rs), the orchestrator (engine.rs) and the streaming  *)
(* RPC producer (grpc_server.rs); and of the Tool-Host tier                *)
(* (mcp_server.rs, query_client.rs) that calls it.                         *)
(***************************************************************************)
EXTENDS Integers, Sequences, FiniteSets, TLC

VARIABLES
    datasets,       \* catalog table `datasets`: sequence of rows [id, format]
    dataset_files,  \* catalog table `dataset_files`: set of rows
    bucket,         \* objects of the managed bucket: set of [dataset_id, filename]
    tables,         \* agentic_analytics.public of the SessionContext: registered ids
    base,           \* default schema of the SessionContext: provider bound to "base"
    tableCalls,     \* per dataset id: register_dataset calls that reached
                    \* schema.register_table
    q,              \* per ExecuteQuery stream: the spawned producer task
    a,              \* the AddDataset call in progress
    g,              \* the GetMetadata call in progress
    listed,         \* the last ListDatasets response
    ingests,        \* the AddDataset calls that have returned
    dataset_columns,    \* catalog table `dataset_columns`: set of rows
    dataset_statistics, \* catalog table `dataset_statistics`: set of rows
    sm,             \* the last DatabaseManager::save_metadata call and the one before
    mcp,            \* the Tool-Host request in progress (mcp_server.rs)
    host,           \* concurrent Tool-Host requests: position of each handler
    client_lock,    \* the Mutex around the shared QueryEngineClient
    registered_buckets, \* DataFusionEngine.registered_buckets
    object_stores,  \* object stores built and registered, per bucket
    ro,             \* register_object_store calls in progress
    cp,             \* the copy_from_external_storage call in progress
    lm              \* the last DatabaseManager::load_metadata call

vars == <<datasets, dataset_files, bucket, tables, base, tableCalls,
          q, a, g, listed, ingests, dataset_columns, dataset_statistics, sm, mcp,
          host, client_lock, registered_buckets, object_stores, ro, cp, lm>>

catalogVars == <<datasets, dataset_files, bucket>>
kernelVars == <<tables, base, tableCalls>>
ingestVars == <<a, g, listed, ingests>>
statVars == <<dataset_columns, dataset_statistics, sm>>
lockVars == <<host, client_lock>>
storeVars == <<registered_buckets, object_stores, ro>>
auxVars == <<lockVars, storeVars, cp, lm>>
engineVars == <<catalogVars, kernelVars, q, ingestVars, statVars, mcp>>

----------------------------------------------------------------------------
(* Bounds of the model *)

MaxStreams == 2     \* concurrent ExecuteQuery streams
MaxBatches == 2     \* record batches returned by one query
MaxFiles == 2       \* objects listed under a source directory
MaxIngests == 1     \* AddDataset calls (fresh dataset ids)
MaxColumns == 1     \* columns carried by one save_metadata argument

(* Program constants *)

CHUNK_SIZE == 1000

Streams == 1..MaxStreams

NONE == "none"

----------------------------------------------------------------------------
(* Strings that the code inspects are sequences of characters. *)

Str_csv == <<"c", "s", "v">>
Str_parquet == <<"p", "a", "r", "q", "u", "e", "t">>
Str_dot == <<".">>

\* str::ends_with
EndsWith(s, suffix) ==
    /\ Len(s) >= Len(suffix)
    /\ SubSeq(s, Len(s) - Len(suffix) + 1, Len(s)) = suffix

\* str::contains(char)
ContainsChar(s, c) == \E i \in 1..Len(s) : s[i] = c

----------------------------------------------------------------------------
(* Error taxonomy (error.rs) *)

\* #[error("...")] prefixes of AnalysisError's Display implementation
DisplayPrefix(kind) ==
    CASE kind = "DatasetNotFound" -> "Dataset not found: "
      [] kind = "InvalidSqlQuery" -> "Invalid SQL query: "
      [] kind = "QueryExecutionFailed" -> "Query execution failed: "
      [] kind = "IoError" -> "IO error: "
      [] kind = "DataFusionError" -> "DataFusion error: "
      [] kind = "ArrowError" -> "Arrow error: "
      [] kind = "JsonError" -> "JSON serialization error: "
      [] kind = "HttpError" -> "HTTP client error: "
      [] kind = "GrpcError" -> "gRPC transport error: "
      [] kind = "GrpcStatusError" -> "gRPC status error: "
      [] kind = "ConfigError" -> "Configuration error: "
      [] kind = "InternalError" -> "Internal server error: "

Error(kind, message) == [kind |-> kind, message |-> message]

\* The mutant: the message alone, without the kind's prefix
ErrorToStringBare(e) == e.message

\* AnalysisError::to_string
ErrorToString(e) == DisplayPrefix(e.kind) \o e.message

\* Messages of the opaque collaborators (kernel, database, object store)
Messages == {"", "m"}

\* The variants of AnalysisError
Kinds ==
    {"DatasetNotFound", "InvalidSqlQuery", "QueryExecutionFailed", "IoError",
     "DataFusionError", "ArrowError", "JsonError", "HttpError", "GrpcError",
     "GrpcStatusError", "ConfigError", "InternalError"}

Status(code, message) == [code |-> code, message |-> message]

\* The mutant: ConfigError falls through to the catch-all arm
StatusFromCatchAll(e) ==
    CASE e.kind = "DatasetNotFound" -> Status("NotFound", ErrorToString(e))
      [] e.kind = "InvalidSqlQuery" -> Status("InvalidArgument", ErrorToString(e))
      [] OTHER -> Status("Internal", ErrorToString(e))

\* impl From<AnalysisError> for tonic::Status
StatusFrom(e) ==
    CASE e.kind = "DatasetNotFound" -> Status("NotFound", ErrorToString(e))
      [] e.kind = "InvalidSqlQuery" -> Status("InvalidArgument", ErrorToString(e))
      [] e.kind = "QueryExecutionFailed" -> Status("Internal", ErrorToString(e))
      [] e.kind = "ConfigError" -> Status("InvalidArgument", ErrorToString(e))
      [] OTHER -> Status("Internal", ErrorToString(e))

----------------------------------------------------------------------------
(* Catalog store (database.rs) *)

\* DataFormat::as_str
AsStr(format) == IF format = "Parquet" THEN "parquet" ELSE "csv"

\* the match on the `format` column in load_metadata
FormatOfColumn(text) ==
    CASE text = "csv" -> "Csv"
      [] text = "parquet" -> "Parquet"
      [] OTHER -> "Csv"

DatasetIdsOf(rows) == {rows[i].id : i \in 1..Len(rows)}

RowOf(rows, id) == rows[CHOOSE i \in 1..Len(rows) : rows[i].id = id]

FilesOf(id) == {f \in dataset_files : f.dataset_id = id}

\* Where a load_metadata call may fail: the connection checkout, the read of
\* the root row, and the reads of dataset_files, dataset_columns and
\* dataset_statistics
LoadFaults == {"none", "connection", "root", "files", "columns", "statistics"}

\* DatabaseManager::load_metadata: Ok(<<metadata>>) or Err.  Every error of the
\* root row's get_result, a missing row and a database error alike, is mapped
\* to DatasetNotFound.
LoadMetadata(id, fault, msg) ==
    IF fault = "connection"
    THEN [ok |-> FALSE, err |-> Error("ConfigError", msg), value |-> <<>>]
    ELSE IF fault = "root" \/ id \notin DatasetIdsOf(datasets)
    THEN [ok |-> FALSE, err |-> Error("DatasetNotFound", msg), value |-> <<>>]
    ELSE IF fault \in {"files", "columns", "statistics"}
    THEN [ok |-> FALSE, err |-> Error("ConfigError", msg), value |-> <<>>]
    ELSE [ok |-> TRUE, err |-> Error("DatasetNotFound", ""),
          value |-> <<[id |-> id,
                       format |-> FormatOfColumn(RowOf(datasets, id).format),
                       files |-> FilesOf(id)]>>]

\* DatasetManager::get_dataset: Some(DatasetInfo) or None
GetDataset(id, dbOk) ==
    LoadMetadata(id, IF dbOk THEN "none" ELSE "connection", "").value

----------------------------------------------------------------------------
(* Query runtime adapter (datafusion_engine.rs) *)

RegisterResult(called, reached, registered, err) ==
    [called |-> called, reached |-> reached, registered |-> registered, err |-> err]

\* DataFusionEngine::register_dataset
RegisterDataset(dataset, kernelOk, msg) ==
    IF dataset.files = {}
    THEN RegisterResult(TRUE, FALSE, FALSE, <<Error("ConfigError", dataset.id)>>)
    ELSE IF ~kernelOk
    THEN \* object store, URL parse or schema inference failed
         RegisterResult(TRUE, FALSE, FALSE, <<Error("DataFusionError", msg)>>)
    ELSE IF AsStr(dataset.format) \notin {"csv", "json", "parquet"}
    THEN RegisterResult(TRUE, FALSE, FALSE,
                        <<Error("ConfigError", AsStr(dataset.format))>>)
    ELSE IF dataset.id \in tables
    THEN \* MemorySchemaProvider::register_table refuses an existing name
         RegisterResult(TRUE, TRUE, FALSE,
                        <<Error("DataFusionError", "already exists")>>)
    ELSE RegisterResult(TRUE, TRUE, TRUE, <<>>)

\* AnalysisEngine::register_dataset_with_datafusion
RegisterDatasetWithDatafusion(id, dbOk, kernelOk, msg) ==
    LET dataset == GetDataset(id, dbOk) IN
    IF dataset = <<>>
    THEN RegisterResult(FALSE, FALSE, FALSE, <<Error("DatasetNotFound", id)>>)
    ELSE RegisterDataset(dataset[1], kernelOk, msg)

\* The effect of one call of register_dataset_with_datafusion on the kernel
ApplyRegister(id, r) ==
    /\ tables' = IF r.registered THEN tables \cup {id} ELSE tables
    /\ tableCalls' =
         IF r.reached THEN [tableCalls EXCEPT ![id] = @ + 1] ELSE tableCalls

\* DataFusionEngine::is_dataset_registered
IsDatasetRegistered(id) == id \in tables

\* The mutant: the loop forgets `chunk_index += 1`
RECURSIVE SliceBatchSameIndex(_, _, _)
SliceBatchSameIndex(num_rows, start_row, chunk_index) ==
    IF start_row < num_rows
    THEN LET end_row == IF start_row + CHUNK_SIZE < num_rows
                        THEN start_row + CHUNK_SIZE ELSE num_rows
         IN <<[chunk_rows |-> end_row - start_row, chunk_index |-> chunk_index]>>
            \o SliceBatchSameIndex(num_rows, end_row, chunk_index)
    ELSE <<>>

\* The mutant: the loop runs while `start_row <= batch.num_rows()`
RECURSIVE SliceBatchOffByOne(_, _, _)
SliceBatchOffByOne(num_rows, start_row, chunk_index) ==
    IF start_row <= num_rows
    THEN LET end_row == IF start_row + CHUNK_SIZE < num_rows
                        THEN start_row + CHUNK_SIZE ELSE num_rows
         IN <<[chunk_rows |-> end_row - start_row, chunk_index |-> chunk_index]>>
            \o (IF end_row = start_row THEN <<>>
                ELSE SliceBatchOffByOne(num_rows, end_row, chunk_index + 1))
    ELSE <<>>

\* The `while start_row < batch.num_rows()` loop over one batch
RECURSIVE SliceBatch(_, _, _)
SliceBatch(num_rows, start_row, chunk_index) ==
    IF start_row < num_rows
    THEN LET end_row == IF start_row + CHUNK_SIZE < num_rows
                        THEN start_row + CHUNK_SIZE ELSE num_rows
         IN <<[chunk_rows |-> end_row - start_row, chunk_index |-> chunk_index]>>
            \o SliceBatch(num_rows, end_row, chunk_index + 1)
    ELSE <<>>

\* The mutant: `chunk_index` is declared inside the `for batch` loop
RECURSIVE SliceBatchesRestarting(_, _)
SliceBatchesRestarting(batches, chunk_index) ==
    IF batches = <<>> THEN <<>>
    ELSE SliceBatch(Head(batches), 0, 0) \o SliceBatchesRestarting(Tail(batches), 0)

\* The `for batch in batches` loop: chunk_index runs on across the batches
RECURSIVE SliceBatches(_, _)
SliceBatches(batches, chunk_index) ==
    IF batches = <<>> THEN <<>>
    ELSE LET head == SliceBatch(Head(batches), 0, chunk_index)
         IN head \o SliceBatches(Tail(batches), chunk_index + Len(head))

RECURSIVE SumRows(_)
SumRows(batches) ==
    IF batches = <<>> THEN 0 ELSE Head(batches) + SumRows(Tail(batches))

\* The QueryStreamResult built from the collected batches
QueryStreamResult(batches) ==
    IF batches # <<>>
    THEN [metadata |-> <<[estimated_rows |-> SumRows(batches)]>>,
          chunks |-> SliceBatches(batches, 0)]
    ELSE [metadata |-> <<>>, chunks |-> <<>>]

----------------------------------------------------------------------------
(* Inputs *)

\* Row counts of the record batches the kernel may return
BatchSizes == {0, 1, CHUNK_SIZE, 2 * CHUNK_SIZE + 1}

RECURSIVE SeqsUpTo(_, _)
SeqsUpTo(S, n) ==
    IF n = 0 THEN {<<>>}
    ELSE LET shorter == SeqsUpTo(S, n - 1)
         IN shorter \cup {Append(t, x) : t \in shorter, x \in S}

BatchSeqs == SeqsUpTo(BatchSizes, MaxBatches)

\* Dataset ids that requests name: two catalogued ones and one unknown
QueryIds == {"ds_a", "ds_b", "ds_nope"}

----------------------------------------------------------------------------
(* SQL text: the limit rewrite of DataFusionEngine::execute_query and the  *)
(* kernel's reading of the text it is handed (ctx.sql)                     *)

Sql_select_all == <<"s", "e", "l", "e", "c", "t", " ", "*", " ", "f", "r", "o", "m", " ", "b", "a", "s", "e">>
Sql_with_limit == <<"s", "e", "l", "e", "c", "t", " ", "*", " ", "f", "r", "o", "m", " ", "b", "a", "s", "e", " ", "L", "I", "M", "I", "T", " ", "1">>
Sql_limit_column == <<"s", "e", "l", "e", "c", "t", " ", "r", "a", "t", "e", "_", "l", "i", "m", "i", "t", " ", "f", "r", "o", "m", " ", "b", "a", "s", "e">>
Sql_comment == <<"s", "e", "l", "e", "c", "t", " ", "*", " ", "f", "r", "o", "m", " ", "b", "a", "s", "e", " ", "-", "-", " ", "a", "l", "l">>
Sql_invalid == <<"s", "e", "l", "e", "c", " ", "*", " ", "f", "r", "o", "m", " ", "b", "a", "s", "e">>

Str_limit == <<"l", "i", "m", "i", "t">>
Str_limit_clause == <<" ", "L", "I", "M", "I", "T", " ">>
Str_dashes == <<"-", "-">>
Str_select == <<"s", "e", "l", "e", "c", "t">>
Str_from == <<"f", "r", "o", "m">>
Str_base == <<"b", "a", "s", "e">>

UpperCase == <<"A", "B", "C", "D", "E", "F", "G", "H", "I", "J", "K", "L", "M", "N", "O", "P", "Q", "R", "S", "T", "U", "V", "W", "X", "Y", "Z">>
LowerCase == <<"a", "b", "c", "d", "e", "f", "g", "h", "i", "j", "k", "l", "m", "n", "o", "p", "q", "r", "s", "t", "u", "v", "w", "x", "y", "z">>
Digits == <<"0", "1", "2", "3", "4", "5", "6", "7", "8", "9">>

\* str::to_lowercase
ToLowerChar(c) ==
    IF \E i \in 1..Len(UpperCase) : UpperCase[i] = c
    THEN LowerCase[CHOOSE i \in 1..Len(UpperCase) : UpperCase[i] = c]
    ELSE c

Lower(text) == [i \in 1..Len(text) |-> ToLowerChar(text[i])]

\* Where `pattern` starts in `text`
Occurs(text, pattern) ==
    {i \in 1..(Len(text) - Len(pattern) + 1) :
        SubSeq(text, i, i + Len(pattern) - 1) = pattern}

\* str::contains(&str)
Contains(text, pattern) == Occurs(text, pattern) # {}

\* `format!("{}", n)` of a positive i32
RECURSIVE ToDecimal(_)
ToDecimal(n) ==
    IF n < 10 THEN <<Digits[n + 1]>>
    ELSE ToDecimal(n \div 10) \o <<Digits[(n % 10) + 1]>>

\* producer task: `if req.limit > 0 { Some(req.limit) } else { None }`
LimitOption(limit) == IF limit > 0 THEN <<limit>> ELSE <<>>

\* DataFusionEngine::execute_query: the text handed to ctx.sql
LimitedQuery(sql_query, limit) ==
    IF limit # <<>> /\ ~Contains(Lower(sql_query), Str_limit)
    THEN sql_query \o Str_limit_clause \o ToDecimal(limit[1])
    ELSE sql_query

\* The kernel's tokenizer: `--` starts a comment that runs to the end of the line
StripComment(text) ==
    IF Occurs(text, Str_dashes) = {} THEN text
    ELSE SubSeq(text, 1, (CHOOSE i \in Occurs(text, Str_dashes) :
                            \A j \in Occurs(text, Str_dashes) : i <= j) - 1)

\* The kernel's tokenizer: words between blanks
RECURSIVE Words(_, _)
Words(text, word) ==
    IF text = <<>> THEN (IF word = <<>> THEN <<>> ELSE <<word>>)
    ELSE IF Head(text) = " "
    THEN (IF word = <<>> THEN <<>> ELSE <<word>>) \o Words(Tail(text), <<>>)
    ELSE Words(Tail(text), Append(word, Head(text)))

IsNumber(word) ==
    word # <<>> /\ \A i \in 1..Len(word) : \E d \in 1..Len(Digits) : Digits[d] = word[i]

RECURSIVE ParseNumber(_)
ParseNumber(word) ==
    IF word = <<>> THEN 0
    ELSE 10 * ParseNumber(SubSeq(word, 1, Len(word) - 1))
         + (CHOOSE d \in 0..9 : Digits[d + 1] = word[Len(word)])

\* The kernel's parser on the statements of this model:
\* SELECT <projection> FROM base [LIMIT <n>], keywords in any case
ParseSql(text) ==
    LET w == Words(Lower(StripComment(text)), <<>>)
        select == Len(w) >= 4 /\ w[1] = Str_select /\ w[3] = Str_from /\ w[4] = Str_base
    IN IF select /\ Len(w) = 4 THEN [ok |-> TRUE, limit |-> <<>>]
       ELSE IF select /\ Len(w) = 6 /\ w[5] = Str_limit /\ IsNumber(w[6])
       THEN [ok |-> TRUE, limit |-> <<ParseNumber(w[6])>>]
       ELSE [ok |-> FALSE, limit |-> <<>>]

\* The kernel's LIMIT: the first n rows of the batches
RECURSIVE TakeRows(_, _)
TakeRows(batches, n) ==
    IF batches = <<>> \/ n = 0 THEN <<>>
    ELSE IF Head(batches) <= n
    THEN <<Head(batches)>> \o TakeRows(Tail(batches), n - Head(batches))
    ELSE <<n>>

\* df.collect(): the batches of the statement
Collect(parsed, batches) ==
    IF parsed.limit = <<>> THEN batches ELSE TakeRows(batches, parsed.limit[1])

\* The statements and limits of the requests
Sqls == {Sql_select_all, Sql_with_limit, Sql_limit_column, Sql_comment, Sql_invalid}
Limits == {0, 1, CHUNK_SIZE}

----------------------------------------------------------------------------
(* ExecuteQuery: the RPC handler and its producer task (grpc_server.rs),   *)
(* AnalysisEngine::execute_query and DataFusionEngine::execute_query       *)

\* `mpsc::channel(32)`
CHANNEL_CAPACITY == 32

\* The mutant: a send never waits for room
ChannelHasRoomAlways(chan) == TRUE

\* tx.send(..).await completes once the channel holds fewer than 32 frames
ChannelHasRoom(chan) == Len(chan) < CHANNEL_CAPACITY

\* `frames`: every frame sent so far; `chan`: the frames sent and not yet read;
\* `received`: the frames the client has read
IdleQuery ==
    [pc |-> "idle", dataset_id |-> NONE, sql_query |-> <<>>, limit |-> 0,
     executed |-> <<>>, attempts |-> 0, resolved |-> NONE,
     batches |-> <<>>, result |-> [metadata |-> <<>>, chunks |-> <<>>], err |-> <<>>,
     chunk_index |-> 0, total_rows |-> 0, frames |-> <<>>, dropped |-> FALSE,
     chan |-> <<>>, received |-> <<>>]

MetadataFrame(m) ==
    [type |-> "Metadata", estimated_rows |-> m.estimated_rows]

DataChunkFrame(c) ==
    [type |-> "DataChunk", chunk_rows |-> c.chunk_rows, chunk_index |-> c.chunk_index]

CompleteFrame(total_rows, success, error_message) ==
    [type |-> "Complete", total_rows |-> total_rows, success |-> success,
     error_message |-> error_message]

\* The frame the producer sends when the engine call fails
ErrorFrame(e) == CompleteFrame(0, FALSE, ErrorToString(e))

\* Where the producer goes after `stream.into_proto_parts()`
FirstSend(result) ==
    IF result.metadata # <<>> THEN "metadata"
    ELSE IF result.chunks # <<>> THEN "chunks" ELSE "complete"

Fail(s, e) == q' = [q EXCEPT ![s].pc = "error", ![s].err = <<e>>]

\* execute_query of the RPC server: the channel and the spawned producer task
Spawn(s, dataset_id, sql_query, limit) ==
    q' = [q EXCEPT ![s].pc = "check", ![s].dataset_id = dataset_id,
                   ![s].sql_query = sql_query, ![s].limit = limit]

\* An ExecuteQuery request: any dataset id, `SELECT * FROM base`, no limit
ExecuteQuery(s) ==
    /\ q[s].pc = "idle"
    /\ \E id \in QueryIds : Spawn(s, id, Sql_select_all, 0)
    /\ UNCHANGED <<auxVars, statVars, mcp, catalogVars, kernelVars, ingestVars>>

\* An ExecuteQuery request with any of the statements and limits
ExecuteSql(s) ==
    /\ q[s].pc = "idle"
    /\ \E id \in QueryIds, sql_query \in Sqls, limit \in Limits :
         Spawn(s, id, sql_query, limit)
    /\ UNCHANGED <<auxVars, statVars, mcp, catalogVars, kernelVars, ingestVars>>

\* AnalysisEngine::execute_query: `if !is_dataset_registered(dataset_id)`
QueryCheckRegistered(s) ==
    /\ q[s].pc = "check"
    /\ q' = [q EXCEPT ![s].pc =
                IF IsDatasetRegistered(q[s].dataset_id) THEN "bind" ELSE "register"]
    /\ UNCHANGED <<auxVars, statVars, mcp, catalogVars, kernelVars, ingestVars>>

\* AnalysisEngine::execute_query: `register_dataset_with_datafusion(dataset_id)?`
QueryRegister(s) ==
    /\ q[s].pc = "register"
    /\ \E dbOk \in BOOLEAN, kernelOk \in BOOLEAN, msg \in Messages :
         LET r == RegisterDatasetWithDatafusion(q[s].dataset_id, dbOk, kernelOk, msg) IN
         /\ ApplyRegister(q[s].dataset_id, r)
         /\ IF r.err # <<>> THEN Fail(s, r.err[1])
            ELSE q' = [q EXCEPT ![s].pc = "bind"]
    /\ UNCHANGED <<auxVars, statVars, mcp, catalogVars, base, ingestVars>>

\* DataFusionEngine::execute_query: get_table and register_table("base", ..)
BindBase(s) ==
    /\ q[s].pc = "bind"
    /\ IF q[s].dataset_id \notin tables
       THEN Fail(s, Error("DatasetNotFound", q[s].dataset_id)) /\ UNCHANGED base
       ELSE IF base # NONE
       THEN \* MemorySchemaProvider::register_table refuses an existing name
            Fail(s, Error("DataFusionError", "The table base already exists"))
            /\ UNCHANGED base
       ELSE base' = q[s].dataset_id /\ q' = [q EXCEPT ![s].pc = "run"]
    /\ UNCHANGED <<auxVars, statVars, mcp, catalogVars, tables, tableCalls, ingestVars>>

\* DataFusionEngine::execute_query: the limit rewrite, ctx.sql, collect, and
\* the chunking. ctx.sql fails on a text the parser refuses, and may fail on
\* one it accepts (planning); `batches` is what the statement yields
\* without its LIMIT
RunSqlOn(s, batchSeqs) ==
    /\ q[s].pc = "run"
    /\ LET query == LimitedQuery(q[s].sql_query, LimitOption(q[s].limit))
           parsed == ParseSql(query)
       IN IF ~parsed.ok
          THEN q' = [q EXCEPT ![s].pc = "error", ![s].executed = query,
                              ![s].err = <<Error("InvalidSqlQuery", "syntax error")>>]
          ELSE \E outcome \in {"sql_error", "execution_error", "arrow_error", "ok"},
                  msg \in Messages, batches \in batchSeqs :
                 LET collected == Collect(parsed, batches) IN
                 CASE outcome = "sql_error" ->
                        q' = [q EXCEPT ![s].pc = "error", ![s].executed = query,
                                       ![s].err = <<Error("InvalidSqlQuery", msg)>>]
                   [] outcome = "execution_error" ->
                        q' = [q EXCEPT ![s].pc = "error", ![s].executed = query,
                                       ![s].err = <<Error("QueryExecutionFailed", msg)>>,
                                       ![s].resolved = base]
                   [] outcome = "arrow_error" ->
                        \* StreamWriter fails: only when there is something to write
                        /\ collected # <<>>
                        /\ q' = [q EXCEPT ![s].pc = "error", ![s].executed = query,
                                          ![s].err = <<Error("ArrowError", msg)>>,
                                          ![s].resolved = base]
                   [] outcome = "ok" ->
                        LET result == QueryStreamResult(collected) IN
                        q' = [q EXCEPT ![s].pc = FirstSend(result),
                                       ![s].executed = query,
                                       ![s].batches = collected,
                                       ![s].result = result,
                                       ![s].resolved = base]
    /\ UNCHANGED <<auxVars, statVars, mcp, catalogVars, kernelVars, ingestVars>>

RunSql(s) == RunSqlOn(s, BatchSeqs)

\* A result of more frames than the channel holds
LargeBatchSeqs == {<<>>, <<1>>, <<(CHANNEL_CAPACITY + 1) * CHUNK_SIZE>>}

RunLargeSql(s) == RunSqlOn(s, LargeBatchSeqs)

\* The mutant: a failed send is ignored and the producer goes on
SendContinuing(s, frame, delivered, nextPc) ==
    IF delivered
    THEN /\ ChannelHasRoom(q[s].chan)
         /\ q' = [q EXCEPT ![s].frames = Append(@, frame),
                           ![s].chan = Append(@, frame), ![s].pc = nextPc,
                           ![s].attempts = @ + 1]
    ELSE q' = [q EXCEPT ![s].pc = nextPc, ![s].dropped = TRUE, ![s].attempts = @ + 1]

\* `tx.send(Ok(response)).await`: fails once the client has dropped the stream
Send(s, frame, delivered, nextPc) ==
    IF delivered
    THEN /\ ChannelHasRoom(q[s].chan)
         /\ q' = [q EXCEPT ![s].frames = Append(@, frame),
                           ![s].chan = Append(@, frame), ![s].pc = nextPc,
                           ![s].attempts = @ + 1]
    ELSE q' = [q EXCEPT ![s].pc = "done", ![s].dropped = TRUE, ![s].attempts = @ + 1]

\* producer task: `if let Some(metadata) = metadata { tx.send(..) }`
SendMetadata(s) ==
    /\ q[s].pc = "metadata"
    /\ \E delivered \in BOOLEAN :
         Send(s, MetadataFrame(q[s].result.metadata[1]), delivered,
              IF q[s].result.chunks # <<>> THEN "chunks" ELSE "complete")
    /\ UNCHANGED <<auxVars, statVars, mcp, catalogVars, kernelVars, ingestVars>>

\* producer task: one iteration of `for chunk in chunks`
SendChunk(s) ==
    /\ q[s].pc = "chunks"
    /\ LET chunk == q[s].result.chunks[q[s].chunk_index + 1] IN
       \E delivered \in BOOLEAN :
         IF delivered
         THEN /\ ChannelHasRoom(q[s].chan)
              /\ q' = [q EXCEPT
                             ![s].frames = Append(@, DataChunkFrame(chunk)),
                             ![s].chan = Append(@, DataChunkFrame(chunk)),
                             ![s].total_rows = @ + chunk.chunk_rows,
                             ![s].chunk_index = @ + 1,
                             ![s].attempts = @ + 1,
                             ![s].pc = IF q[s].chunk_index + 1 < Len(q[s].result.chunks)
                                       THEN "chunks" ELSE "complete"]
         ELSE q' = [q EXCEPT ![s].total_rows = @ + chunk.chunk_rows,
                             ![s].attempts = @ + 1,
                             ![s].pc = "done", ![s].dropped = TRUE]
    /\ UNCHANGED <<auxVars, statVars, mcp, catalogVars, kernelVars, ingestVars>>

\* producer task: `let _ = tx.send(Ok(complete))` after the chunks
SendComplete(s) ==
    /\ q[s].pc = "complete"
    /\ \E delivered \in BOOLEAN :
         Send(s, CompleteFrame(q[s].total_rows, TRUE, ""), delivered, "done")
    /\ UNCHANGED <<auxVars, statVars, mcp, catalogVars, kernelVars, ingestVars>>

\* producer task: the `Err(e)` arm
SendError(s) ==
    /\ q[s].pc = "error"
    /\ \E delivered \in BOOLEAN :
         Send(s, ErrorFrame(q[s].err[1]), delivered, "done")
    /\ UNCHANGED <<auxVars, statVars, mcp, catalogVars, kernelVars, ingestVars>>

\* The client reads the next frame of the ReceiverStream
Receive(s) ==
    /\ q[s].chan # <<>>
    /\ ~q[s].dropped
    /\ q' = [q EXCEPT ![s].received = Append(@, Head(q[s].chan)),
                      ![s].chan = Tail(@)]
    /\ UNCHANGED <<auxVars, statVars, mcp, catalogVars, kernelVars, ingestVars>>

----------------------------------------------------------------------------
(* The catalog the process starts with: the database outlives the process, *)
(* the kernel's tables do not.                                             *)

BUCKET == "agentic_analytics_datasets"

File_a_csv == <<"a">> \o Str_dot \o Str_csv
File_b_parquet == <<"b">> \o Str_dot \o Str_parquet

\* `format!("gs://{}/{}", bucket_name, dest_path)` with
\* dest_path = datasets/{dataset_id}/{filename}
StoragePath(dataset_id, filename) ==
    [scheme |-> "gs", bucket |-> BUCKET, key |-> <<"datasets", dataset_id, filename>>]

FileRow(dataset_id, filename) ==
    [dataset_id |-> dataset_id, filename |-> filename,
     storage_path |-> StoragePath(dataset_id, filename)]

SeedDatasets ==
    <<[id |-> "ds_a", format |-> "csv"], [id |-> "ds_b", format |-> "parquet"]>>

SeedFiles == {FileRow("ds_a", File_a_csv), FileRow("ds_b", File_b_parquet)}

----------------------------------------------------------------------------
(* Ingestion inputs *)

Seg_trips == <<"t", "r", "i", "p", "s">>
Seg_sub == <<"s", "u", "b">>
Host_bkt == <<"b", "k", "t">>

\* A source URL scheme://host/key, the key split at '/'
Source(scheme, key) == [scheme |-> scheme, host |-> Host_bkt, key |-> key]

EmptySource == [scheme |-> "", host |-> <<>>, key |-> <<>>]

\* The source_path values of AddDataset: two single files, a directory,
\* a file behind an unsupported scheme, and ""
Sources ==
    {Source("gs", <<Seg_trips, File_a_csv>>),
     Source("s3", <<Seg_trips, File_b_parquet>>),
     Source("gs", <<Seg_trips, <<>>>>),
     Source("ftp", <<File_a_csv>>),
     EmptySource}

\* Object keys that the source store may list under the prefix
ObjectKeys ==
    {<<Seg_trips, File_a_csv>>,
     <<Seg_trips, File_b_parquet>>,
     <<Seg_trips, Seg_sub, File_a_csv>>,
     <<Seg_trips, Seg_sub>>}

\* A listing names each object once
Listings ==
    {l \in SeqsUpTo(ObjectKeys, MaxFiles) :
        \A i, j \in 1..Len(l) : i # j => l[i] # l[j]}

Names == {"", "Trips"}

\* The `format` field of AddDatasetRequest ("" when not given)
FormatArgs == {"", "csv", "parquet", "json", "PARQUET"}

\* Ids that Uuid::new_v4 mints: the dataset ids are pairwise distinct
Minted == ingests

NextId == "ds_" \o ToString(Cardinality(Minted) + 1)

FreshIds == {"ds_" \o ToString(i) : i \in 1..MaxIngests}

AllIds == QueryIds \cup FreshIds

----------------------------------------------------------------------------
(* Ingestion pipeline (dataset_manager.rs, storage.rs, engine.rs) *)

\* str::split('/') of the URL
SplitSlash(source) ==
    IF source = EmptySource THEN <<<<>>>>
    ELSE <<<<source.scheme, ":">>, <<>>, source.host>> \o source.key

\* `.split('/').next_back()`
LastSegment(segments) == segments[Len(segments)]

\* DatasetManager::is_file_path, on the path split at '/'
IsFilePath(segments) ==
    LET filename == LastSegment(segments)
    IN ContainsChar(filename, ".") /\ ~EndsWith(filename, <<"/">>)

\* str::to_lowercase on the format argument
ToLowercase(text) == IF text = "PARQUET" THEN "parquet" ELSE text

\* AnalysisEngine::add_dataset_from_external_path: `format.map(|f| match ..)`,
\* after the RPC handler turned "" into None
FormatEnum(format_arg) ==
    IF format_arg = "" THEN <<>>
    ELSE IF ToLowercase(format_arg) = "parquet" THEN <<"Parquet">>
    ELSE <<"Csv">>

\* `format.unwrap_or_else(..)` over the copied files
DetectedFormat(format, files) ==
    IF format # <<>> THEN format[1]
    ELSE IF \E i \in 1..Len(files) : EndsWith(files[i].filename, Str_dot \o Str_parquet)
    THEN "Parquet"
    ELSE "Csv"

\* The objects to copy for a directory source: the listed keys that are file
\* paths, each with the basename it is stored under
RECURSIVE DirectoryItems(_, _)
DirectoryItems(source, listing) ==
    IF listing = <<>> THEN <<>>
    ELSE LET key == Head(listing)
             rest == DirectoryItems(source, Tail(listing))
         IN IF IsFilePath(key)
            THEN <<[source |-> Source(source.scheme, key),
                    filename |-> LastSegment(key)]>> \o rest
            ELSE rest

\* DatasetStorage::copy_from_external_storage: the scheme picks the client
SupportedScheme(scheme) == scheme \in {"s3", "gs"}

DatasetFile(dataset_id, filename) ==
    [filename |-> filename, storage_path |-> StoragePath(dataset_id, filename)]

Filenames(files) == [i \in 1..Len(files) |-> files[i].filename]

\* DatabaseManager::add_dataset: the insert into `datasets`
InsertDataset(rows, entry) ==
    Append(rows, [id |-> entry.id, format |-> AsStr(entry.format)])

\* DatabaseManager::save_metadata: the inserts into `dataset_files`, run in
\* one transaction; a primary key conflict or a failed statement rolls back
RECURSIVE InsertFiles(_, _, _)
InsertFiles(table, dataset_id, files) ==
    IF files = <<>> THEN [ok |-> TRUE, table |-> table]
    ELSE LET file == Head(files) IN
         IF \E row \in table :
                row.dataset_id = dataset_id /\ row.filename = file.filename
         THEN [ok |-> FALSE, table |-> table]
         ELSE InsertFiles(
                table \cup {[dataset_id |-> dataset_id, filename |-> file.filename,
                             storage_path |-> file.storage_path]},
                dataset_id, Tail(files))

\* DatabaseManager::save_metadata: the inserts into `dataset_columns`
RECURSIVE InsertColumns(_, _, _)
InsertColumns(table, dataset_id, columns) ==
    IF columns = <<>> THEN [ok |-> TRUE, table |-> table]
    ELSE LET column == Head(columns) IN
         IF \E row \in table :
                row.dataset_id = dataset_id /\ row.name = column.name
         THEN [ok |-> FALSE, table |-> table]
         ELSE InsertColumns(
                table \cup {[dataset_id |-> dataset_id, name |-> column.name]},
                dataset_id, Tail(columns))

\* DatabaseManager::save_metadata: the statistics, inserted with
\* `on_conflict((dataset_id, stat_key)).do_update().set(stat_value)`
RECURSIVE UpsertStatistics(_, _, _)
UpsertStatistics(table, dataset_id, statistics) ==
    IF statistics = <<>> THEN table
    ELSE LET stat == Head(statistics)
             others == {row \in table :
                          ~(row.dataset_id = dataset_id /\ row.stat_key = stat.key)}
         IN UpsertStatistics(
                others \cup {[dataset_id |-> dataset_id, stat_key |-> stat.key,
                              stat_value |-> stat.value]},
                dataset_id, Tail(statistics))

\* The three tables save_metadata writes
Db(files, columns, statistics) ==
    [files |-> files, columns |-> columns, statistics |-> statistics]

\* DatasetMetadataFile, as far as save_metadata reads it
Metadata(id, files, columns, statistics) ==
    [id |-> id, files |-> files, columns |-> columns, statistics |-> statistics]

\* Where the database fails a call: nowhere, at `pool.get()` (0), at the
\* i-th statement of the transaction, or at the commit (one past the last)
NoFault == -1

StatementCount(metadata) ==
    Len(metadata.files) + Len(metadata.columns) + Len(metadata.statistics)

CommitFault(metadata) == StatementCount(metadata) + 1

Faults(metadata) == {NoFault} \cup (0..CommitFault(metadata))

\* How many of the `count` statements numbered from `first` run before `fault`
RunBefore(fault, first, count) ==
    IF fault \in first..(first + count - 1) THEN fault - first ELSE count

\* The body of the transaction closure: the three loops, each statement
\* followed by `?`. `db` of the result is what the statements that ran wrote
RunStatements(db, metadata, fault) ==
    LET F == Len(metadata.files)
        C == Len(metadata.columns)
        S == Len(metadata.statistics)
        nF == RunBefore(fault, 1, F)
        nC == RunBefore(fault, F + 1, C)
        nS == RunBefore(fault, F + C + 1, S)
        f == InsertFiles(db.files, metadata.id, SubSeq(metadata.files, 1, nF))
        fOk == f.ok /\ nF = F
        c == IF fOk
             THEN InsertColumns(db.columns, metadata.id, SubSeq(metadata.columns, 1, nC))
             ELSE [ok |-> FALSE, table |-> db.columns]
        cOk == fOk /\ c.ok /\ nC = C
        st == IF cOk
              THEN UpsertStatistics(db.statistics, metadata.id,
                                    SubSeq(metadata.statistics, 1, nS))
              ELSE db.statistics
    IN [ok |-> cOk /\ nS = S, db |-> Db(f.table, c.table, st)]

\* The mutant: the writes of a failed transaction stay
RollbackKeeping(before, after) == after

\* conn.transaction: an Err of the closure rolls the transaction back
Rollback(before, after) == before

\* DatabaseManager::save_metadata
SaveMetadataResult(metadata, db, fault) ==
    IF fault = 0
    THEN [ok |-> FALSE, err |-> <<Error("ConfigError", "Failed to get database connection")>>,
          db |-> db]
    ELSE LET run == RunStatements(db, metadata, fault) IN
         IF run.ok /\ fault # CommitFault(metadata)
         THEN [ok |-> TRUE, err |-> <<>>, db |-> run.db]
         ELSE [ok |-> FALSE, err |-> <<Error("ConfigError", "Failed to insert")>>,
               db |-> Rollback(db, run.db)]

\* save_metadata as add_dataset_from_external_path calls it: files only,
\* `columns: vec![]`, `statistics: HashMap::new()`
SaveMetadataTx(table, dataset_id, files, dbOk) ==
    LET r == SaveMetadataResult(Metadata(dataset_id, files, <<>>, <<>>),
                                Db(table, {}, {}),
                                IF dbOk THEN NoFault ELSE 0)
    IN [ok |-> r.ok, table |-> r.db.files]

RECURSIVE Reverse(_)
Reverse(seq) == IF seq = <<>> THEN <<>> ELSE Append(Reverse(Tail(seq)), Head(seq))

RECURSIVE Repeat(_, _)
Repeat(x, n) == IF n = 0 THEN <<>> ELSE <<x>> \o Repeat(x, n - 1)

RECURSIVE JoinFiles(_)
JoinFiles(rows) ==
    IF rows = <<>> THEN <<>>
    ELSE Repeat(Head(rows), Cardinality(FilesOf(Head(rows).id))) \o JoinFiles(Tail(rows))

\* The mutant: the list query joins dataset_files, one row per file
ListedDatasetsJoined(rows, dbOk) == IF dbOk THEN JoinFiles(Reverse(rows)) ELSE <<>>

\* The mutant: a failed read is answered from rows read earlier
ListedDatasetsStale(rows, dbOk) == Reverse(rows)

\* DatabaseManager::list_datasets mapped to the Dataset messages of
\* DatasetManager::list_datasets: newest first, empty when the read fails
ListedDatasets(rows, dbOk) == IF dbOk THEN Reverse(rows) ELSE <<>>

IdleAdd ==
    [pc |-> "idle", id |-> NONE, format_arg |-> "", format |-> <<>>,
     todo |-> <<>>, files |-> <<>>, copy_failed |-> FALSE, detected |-> "Csv",
     outcome |-> NONE, response |-> <<>>]

\* `status` is the Err(Status) the RPC returned; `lookup` is what
\* database.get_dataset answered for the call ("failed": the database did not)
IdleGet ==
    [pc |-> "idle", dataset_id |-> NONE, format |-> "", err |-> <<>>,
     status |-> <<>>, lookup |-> NONE]

NotListed == [ok |-> FALSE, datasets |-> <<>>, after |-> {}]

\* AddDatasetResponse
Response(success, dataset_id, message, dataset) ==
    [success |-> success, dataset_id |-> dataset_id, message |-> message,
     dataset |-> dataset]

\* The mutant: the message is the backend error's
FailureResponseLeaking == Response(FALSE, "", "m", <<>>)

\* add_dataset of the RPC server, the `Err(e)` arm
FailureResponse ==
    Response(FALSE, "",
             "Failed to add dataset. Please check the source path and try again.",
             <<>>)

\* The call returns. What it did is kept for the claims: the id it minted,
\* the format argument, the filenames it copied, whether a copy failed
Return(call, outcome, response) ==
    /\ a' = [IdleAdd EXCEPT !.pc = "done", !.id = call.id, !.outcome = outcome,
                            !.response = <<response>>]
    /\ ingests' = IF call.id = NONE THEN ingests
                  ELSE ingests \cup {[id |-> call.id, format_arg |-> call.format_arg,
                                      copied |-> Filenames(call.files),
                                      copy_failed |-> call.copy_failed,
                                      outcome |-> outcome]}

Finish(outcome, response) == Return(a, outcome, response)

Rejected(message) == Return(IdleAdd, "invalid", Response(FALSE, "", message, <<>>))

\* An error before the first copy: the id was minted, nothing was written
FailEarly(id, format_arg, outcome) ==
    Return([IdleAdd EXCEPT !.id = id, !.format_arg = format_arg],
           outcome, FailureResponse)

\* What the engine does once the items to copy are known
StartCopy(id, format_arg, items) ==
    /\ a' = [IdleAdd EXCEPT !.pc = "copy", !.id = id, !.format_arg = format_arg,
                            !.format = FormatEnum(format_arg), !.todo = items]
    /\ UNCHANGED ingests

\* DatasetManager::add_dataset_from_external_path for a directory source:
\* the source store, the listing and its filter
AddDirectory(id, format_arg, source) ==
    IF ~SupportedScheme(source.scheme)
    THEN FailEarly(id, format_arg, "list_failed")
    ELSE \E listing \in Listings, listOk \in BOOLEAN :
           IF ~listOk THEN FailEarly(id, format_arg, "list_failed")
           ELSE IF DirectoryItems(source, listing) = <<>>
           THEN FailEarly(id, format_arg, "no_files")
           ELSE StartCopy(id, format_arg, DirectoryItems(source, listing))

\* add_dataset of the RPC server down to the classification of source_path
\* and the listing of a directory
AddDataset ==
    /\ a.pc \in {"idle", "done"}
    /\ Cardinality(Minted) < MaxIngests
    /\ \E name \in Names, source \in Sources :
         IF name = "" THEN Rejected("Dataset name is required")
         ELSE IF source = EmptySource THEN Rejected("Source path is required")
         ELSE \E format_arg \in FormatArgs :
                IF IsFilePath(SplitSlash(source))
                THEN StartCopy(NextId, format_arg,
                               <<[source |-> source,
                                  filename |-> LastSegment(SplitSlash(source))]>>)
                ELSE AddDirectory(NextId, format_arg, source)
    /\ UNCHANGED <<auxVars, statVars, mcp, catalogVars, kernelVars, q, g, listed>>

\* The mutant: a file that cannot be copied is skipped (`continue` for `?`)
AfterCopySkippingFailures(copied, item) ==
    [a EXCEPT !.todo = Tail(@),
              !.files = IF copied THEN Append(@, DatasetFile(a.id, item.filename)) ELSE @,
              !.pc = IF Tail(a.todo) = <<>> THEN "add_dataset" ELSE "copy",
              !.detected = DetectedFormat(a.format,
                              IF copied THEN Append(a.files, DatasetFile(a.id, item.filename))
                              ELSE a.files)]

\* The ingest after one copy_from_external_storage call: `?` ends it on failure
AfterCopy(copied, item) ==
    IF copied
    THEN [a EXCEPT !.todo = Tail(@),
                   !.files = Append(@, DatasetFile(a.id, item.filename)),
                   !.pc = IF Tail(a.todo) = <<>> THEN "add_dataset" ELSE "copy",
                   !.detected = DetectedFormat(a.format,
                                   Append(a.files, DatasetFile(a.id, item.filename)))]
    ELSE [a EXCEPT !.pc = "copy_failed"]

\* One copy_from_external_storage call of add_dataset_from_external_path
CopyFile ==
    /\ a.pc = "copy"
    /\ LET item == Head(a.todo) IN
       \E storeOk \in BOOLEAN :
         LET copied == SupportedScheme(item.source.scheme) /\ storeOk
             after == [AfterCopy(copied, item) EXCEPT
                         !.copy_failed = a.copy_failed \/ ~copied]
         IN /\ bucket' = IF copied
                         THEN bucket \cup {[dataset_id |-> a.id, filename |-> item.filename]}
                         ELSE bucket
            /\ IF after.pc = "copy_failed"
               THEN Return(after, "copy_failed", FailureResponse)
               ELSE a' = after /\ UNCHANGED ingests
    /\ UNCHANGED <<auxVars, statVars, mcp, datasets, dataset_files, kernelVars, q, g, listed>>

\* `self.database.add_dataset(&catalog_entry).await?`
AddDatasetRow ==
    /\ a.pc = "add_dataset"
    /\ \E dbOk \in BOOLEAN :
         IF dbOk /\ a.id \notin DatasetIdsOf(datasets)
         THEN /\ datasets' = InsertDataset(datasets, [id |-> a.id, format |-> a.detected])
              /\ a' = [a EXCEPT !.pc = "save_metadata"]
              /\ UNCHANGED ingests
         ELSE /\ Finish("insert_failed", FailureResponse)
              /\ UNCHANGED datasets
    /\ UNCHANGED <<auxVars, statVars, mcp, dataset_files, bucket, kernelVars, q, g, listed>>

\* `self.database.save_metadata(&metadata).await?`
SaveMetadata ==
    /\ a.pc = "save_metadata"
    /\ \E dbOk \in BOOLEAN :
         LET r == SaveMetadataTx(dataset_files, a.id, a.files, dbOk) IN
         /\ dataset_files' = r.table
         /\ IF r.ok THEN a' = [a EXCEPT !.pc = "register"] /\ UNCHANGED ingests
            ELSE Finish("save_failed", FailureResponse)
    /\ UNCHANGED <<auxVars, statVars, mcp, datasets, bucket, kernelVars, q, g, listed>>

\* AnalysisEngine::add_dataset_from_external_path:
\* `self.register_dataset_with_datafusion(&dataset_id).await?`
AddRegister ==
    /\ a.pc = "register"
    /\ \E dbOk \in BOOLEAN, kernelOk \in BOOLEAN, msg \in Messages :
         LET r == RegisterDatasetWithDatafusion(a.id, dbOk, kernelOk, msg) IN
         /\ ApplyRegister(a.id, r)
         /\ IF r.err # <<>> THEN Finish("register_failed", FailureResponse)
            ELSE a' = [a EXCEPT !.pc = "reply"] /\ UNCHANGED ingests
    /\ UNCHANGED <<auxVars, statVars, mcp, catalogVars, base, q, g, listed>>

\* add_dataset of the RPC server: the `Ok(dataset_id)` arm re-reads the list
AddReply ==
    /\ a.pc = "reply"
    /\ \E dbOk \in BOOLEAN :
         LET all == ListedDatasets(datasets, dbOk)
             found == SelectSeq(all, LAMBDA d : d.id = a.id)
         IN Finish("ok", Response(TRUE, a.id, "added successfully",
                                  IF found = <<>> THEN <<>> ELSE <<found[1]>>))
    /\ UNCHANGED <<auxVars, statVars, mcp, catalogVars, kernelVars, q, g, listed>>

OkIds == {r.id : r \in {x \in ingests : x.outcome = "ok"}}

\* list_datasets of the RPC server
ListDatasets ==
    /\ \E dbOk \in BOOLEAN :
         listed' = [ok |-> dbOk, datasets |-> ListedDatasets(datasets, dbOk),
                    after |-> OkIds]
    /\ UNCHANGED <<auxVars, statVars, mcp, catalogVars, kernelVars, q, a, g, ingests>>

----------------------------------------------------------------------------
(* GetMetadata (grpc_server.rs, engine.rs, dataset_manager.rs) *)

\* The mutant: a failure is answered with a default, empty metadata value
AnsweredWithDefault(id, e) ==
    [pc |-> "done", dataset_id |-> id, format |-> "csv", err |-> <<>>,
     status |-> <<>>, lookup |-> "found"]

\* get_metadata of the RPC server, the `Err(e)` arm: `Err(Status::from(e))`
Failed(id, e) ==
    [pc |-> "done", dataset_id |-> id, format |-> "", err |-> <<e>>,
     status |-> <<StatusFrom(e)>>, lookup |-> "found"]

GetFails(id, e) == g' = Failed(id, e)

\* DatasetManager::get_metadata: get_dataset, then load_metadata
GetMetadata ==
    /\ g.pc \in {"idle", "done"}
    /\ \E id \in AllIds, dbOk \in BOOLEAN, fault \in LoadFaults, msg \in Messages :
         IF ~dbOk
         THEN g' = [Failed(id, Error("ConfigError", msg)) EXCEPT !.lookup = "failed"]
         ELSE IF id \notin DatasetIdsOf(datasets)
         THEN g' = [Failed(id, Error("DatasetNotFound", id)) EXCEPT !.lookup = "missing"]
         ELSE LET m == LoadMetadata(id, fault, msg) IN
              IF ~m.ok THEN GetFails(id, m.err)
              ELSE g' = [IdleGet EXCEPT !.pc = "check", !.dataset_id = id,
                                        !.format = AsStr(m.value[1].format),
                                        !.lookup = "found"]
    /\ UNCHANGED <<auxVars, statVars, mcp, catalogVars, kernelVars, q, a, listed, ingests>>

\* AnalysisEngine::get_metadata: `if !is_dataset_registered(dataset_id)`
GetCheckRegistered ==
    /\ g.pc = "check"
    /\ g' = [g EXCEPT !.pc =
                IF IsDatasetRegistered(g.dataset_id) THEN "schema" ELSE "register"]
    /\ UNCHANGED <<auxVars, statVars, mcp, catalogVars, kernelVars, q, a, listed, ingests>>

\* AnalysisEngine::get_metadata: `register_dataset_with_datafusion(dataset_id)?`
GetRegister ==
    /\ g.pc = "register"
    /\ \E dbOk \in BOOLEAN, kernelOk \in BOOLEAN, msg \in Messages :
         LET r == RegisterDatasetWithDatafusion(g.dataset_id, dbOk, kernelOk, msg) IN
         /\ ApplyRegister(g.dataset_id, r)
         /\ IF r.err # <<>> THEN GetFails(g.dataset_id, r.err[1])
            ELSE g' = [g EXCEPT !.pc = "schema"]
    /\ UNCHANGED <<auxVars, statVars, mcp, catalogVars, base, q, a, listed, ingests>>

\* AnalysisEngine::get_metadata: get_table_schema and the response
GetSchema ==
    /\ g.pc = "schema"
    /\ IF g.dataset_id \in tables
       THEN g' = [g EXCEPT !.pc = "done"]
       ELSE GetFails(g.dataset_id, Error("DatasetNotFound", g.dataset_id))
    /\ UNCHANGED <<auxVars, statVars, mcp, catalogVars, kernelVars, q, a, listed, ingests>>

----------------------------------------------------------------------------
(* DatabaseManager::save_metadata called with any metadata (database.rs) *)

ColumnNames == {"c1"}
StatKeys == {"row_count"}
StatValues == {"1", "2"}

\* `statistics: HashMap<String, String>`: keys are distinct
StatSeqs ==
    {<<>>} \cup {<<[key |-> k, value |-> v]>> : k \in StatKeys, v \in StatValues}

\* The metadata arguments, all for the seeded dataset ds_b
Metadatas ==
    {Metadata("ds_b",
              [i \in 1..Len(names) |-> DatasetFile("ds_b", names[i])],
              [i \in 1..Len(cols) |-> [name |-> cols[i]]],
              stats) :
        names \in SeqsUpTo({File_a_csv}, MaxFiles),
        cols \in SeqsUpTo(ColumnNames, MaxColumns),
        stats \in StatSeqs}

CurrentDb == Db(dataset_files, dataset_columns, dataset_statistics)

IdleSave ==
    [pc |-> "idle", metadata |-> Metadata(NONE, <<>>, <<>>, <<>>),
     faulted |-> FALSE, wrote |-> FALSE, ok |-> FALSE, err |-> <<>>,
     before |-> Db({}, {}, {}), prev |-> <<>>]

\* One call of save_metadata. `sm` keeps its argument, its result, the tables
\* as they were before it when it failed, whether the database failed it and whether its
\* closure had written anything; and the statistics and result of the call
\* before it
SaveMetadataCall ==
    /\ \E metadata \in Metadatas :
         \E fault \in Faults(metadata) :
           LET r == SaveMetadataResult(metadata, CurrentDb, fault) IN
           /\ dataset_files' = r.db.files
           /\ dataset_columns' = r.db.columns
           /\ dataset_statistics' = r.db.statistics
           /\ sm' = [pc |-> "done", metadata |-> metadata,
                     faulted |-> fault # NoFault,
                     wrote |-> RunStatements(CurrentDb, metadata, fault).db # CurrentDb,
                     ok |-> r.ok, err |-> r.err,
                     before |-> IF r.ok THEN Db({}, {}, {}) ELSE CurrentDb,
                     prev |-> IF sm.pc = "idle" THEN <<>>
                              ELSE <<[ok |-> sm.ok, id |-> sm.metadata.id,
                                      statistics |-> sm.metadata.statistics]>>]
    /\ UNCHANGED <<auxVars, datasets, bucket, kernelVars, q, ingestVars, mcp>>

----------------------------------------------------------------------------
(* Tool-Host (mcp_server.rs, query_client.rs) *)

\* JSON-RPC error codes of the McpError values the handlers build
METHOD_NOT_FOUND == -32601
INVALID_PARAMS == -32602
INTERNAL_ERROR == -32603

\* QueryEngineClient::execute_query: `limit.unwrap_or(1000)`
DEFAULT_LIMIT == 1000

\* The stream the Tool-Host's client reads
HostStream == 1

McpMethods ==
    {"initialize", "initialized", "ping", "tools/list", "tools/call", "resources/list"}

ToolNames ==
    {"list_datasets", "get_metadata", "execute_query",
     "mcp_reader-servic_query_dataset", "drop_table"}

\* The `arguments` object of a tools/call: each field absent (<<>>) or present
Arguments(dataset_id, sql_query, limit, dataset_list) ==
    [dataset_id |-> dataset_id, sql_query |-> sql_query, limit |-> limit,
     datasets |-> dataset_list]

\* VsCodeDataset
VsCodeDataset(path, sql) == [name |-> "d", path |-> path, sql |-> sql]

ArgumentObjects ==
    {Arguments(<<>>, <<>>, <<>>, <<>>),
     Arguments(<<"ds_a">>, <<>>, <<>>, <<>>),
     Arguments(<<"ds_nope">>, <<>>, <<>>, <<>>),
     Arguments(<<"ds_a">>, <<Sql_select_all>>, <<>>, <<>>),
     Arguments(<<"ds_nope">>, <<Sql_select_all>>, <<>>, <<>>),
     Arguments(<<"ds_a">>, <<Sql_invalid>>, <<1>>, <<>>),
     Arguments(<<>>, <<>>, <<>>, <<<<>>>>),
     Arguments(<<>>, <<>>, <<1>>, <<<<VsCodeDataset("ds_a", Sql_select_all)>>>>),
     Arguments(<<>>, <<>>, <<>>, <<<<VsCodeDataset("ds_a", Sql_invalid)>>>>)}

\* The `params` of a request: absent, or an object whose `name` and
\* `arguments` may be absent
ParamObjects ==
    {<<>>}
    \cup {<<[name |-> <<>>, arguments |-> <<>>]>>}
    \cup {<<[name |-> <<tool>>, arguments |-> <<>>]>> : tool \in ToolNames}
    \cup {<<[name |-> <<tool>>, arguments |-> <<arguments>>]>> :
            tool \in ToolNames, arguments \in ArgumentObjects}

\* McpResponse: `result` or `error`
ResultResponse(content) == [result |-> <<content>>, error |-> <<>>]

ErrorResponse(code, message) ==
    [result |-> <<>>, error |-> <<[code |-> code, message |-> message]>>]

\* handle_tool_call: `match result { Ok(content) => .., Err(e) => .. }`
ToolResponse(result) ==
    IF result.ok THEN ResultResponse(result.content)
    ELSE ErrorResponse(INTERNAL_ERROR, ErrorToString(result.err))

ToolOk(content) == [ok |-> TRUE, content |-> content, err |-> Error("InternalError", "")]

ToolErr(e) == [ok |-> FALSE, content |-> "", err |-> e]

\* `params.get("arguments").cloned().unwrap_or(json!({}))`
ArgumentsOf(params) ==
    IF params.arguments = <<>> THEN Arguments(<<>>, <<>>, <<>>, <<>>)
    ELSE params.arguments[1]

\* serde_json::from_value into GetMetadataParams, ExecuteQueryParams and
\* VsCodeDatasetQuery: the fields without #[serde(default)] must be there
Deserializes(tool, arguments) ==
    CASE tool = "get_metadata" -> arguments.dataset_id # <<>>
      [] tool = "execute_query" ->
            arguments.dataset_id # <<>> /\ arguments.sql_query # <<>>
      [] tool = "mcp_reader-servic_query_dataset" -> arguments.datasets # <<>>
      [] OTHER -> TRUE

\* The query the execute_query and mcp_reader-servic_query_dataset tools
\* send upstream: <<>> when the handler fails before it calls the client
UpstreamQuery(tool, arguments) ==
    IF ~Deserializes(tool, arguments) THEN <<>>
    ELSE IF tool = "execute_query"
    THEN <<[dataset_id |-> arguments.dataset_id[1],
            sql_query |-> arguments.sql_query[1], limit |-> arguments.limit]>>
    ELSE IF arguments.datasets[1] = <<>> THEN <<>>
    ELSE <<[dataset_id |-> arguments.datasets[1][1].path,
            sql_query |-> arguments.datasets[1][1].sql, limit |-> arguments.limit]>>

\* QueryEngineClient::execute_query: `limit.unwrap_or(1000)`
RequestLimit(limit) == IF limit = <<>> THEN DEFAULT_LIMIT ELSE limit[1]

\* `upstream` is what the client read from the stream; `failed` is whether a
\* call to the upstream engine failed
IdleMcp ==
    [pc |-> "idle", method |-> "", params |-> <<>>, upstream |-> <<>>,
     failed |-> FALSE, response |-> <<>>]

Respond(method, params, failed, response) ==
    mcp' = [pc |-> "done", method |-> method, params |-> params, upstream |-> <<>>,
            failed |-> failed, response |-> <<response>>]

\* handle_list_datasets and handle_get_metadata: one unary call upstream
UnaryTool(method, params, tool) ==
    IF ~Deserializes(tool, ArgumentsOf(params[1]))
    THEN Respond(method, params, FALSE,
                 ToolResponse(ToolErr(Error("ConfigError", "Invalid arguments"))))
    ELSE \E upstreamOk \in BOOLEAN :
           Respond(method, params, ~upstreamOk,
                   ToolResponse(IF upstreamOk THEN ToolOk("json")
                                ELSE ToolErr(Error("ConfigError", "gRPC call failed"))))

\* handle_execute_query and handle_vscode_query_dataset up to the request
\* the client sends: the server spawns the producer of the stream
QueryTool(method, params, tool) ==
    LET query == UpstreamQuery(tool, ArgumentsOf(params[1])) IN
    IF query = <<>>
    THEN /\ Respond(method, params, FALSE,
                    ToolResponse(ToolErr(Error("ConfigError", "Invalid arguments"))))
         /\ UNCHANGED q
    ELSE \E connected \in BOOLEAN :
           IF ~connected
           THEN /\ Respond(method, params, TRUE,
                           ToolResponse(ToolErr(Error("ConfigError",
                                                      "gRPC streaming call failed"))))
                /\ UNCHANGED q
           ELSE /\ mcp' = [pc |-> "upstream", method |-> method, params |-> params,
                           upstream |-> <<>>, failed |-> FALSE, response |-> <<>>]
                /\ Spawn(HostStream, query[1].dataset_id, query[1].sql_query,
                         RequestLimit(query[1].limit))

\* handle_tool_call down to the call of the tool's handler
ToolCall(method, params) ==
    IF params = <<>>
    THEN Respond(method, params, FALSE, ErrorResponse(INVALID_PARAMS, "Invalid params"))
         /\ UNCHANGED q
    ELSE IF params[1].name = <<>>
    THEN Respond(method, params, FALSE, ErrorResponse(INVALID_PARAMS, "Missing tool name"))
         /\ UNCHANGED q
    ELSE LET tool == params[1].name[1] IN
         CASE tool \in {"list_datasets", "get_metadata"} ->
                UnaryTool(method, params, tool) /\ UNCHANGED q
           [] tool \in {"execute_query", "mcp_reader-servic_query_dataset"} ->
                QueryTool(method, params, tool)
           [] OTHER ->
                /\ Respond(method, params, FALSE,
                           ToolResponse(ToolErr(Error("ConfigError", "Unknown tool"))))
                /\ UNCHANGED q

\* handle_mcp_request
McpRequest ==
    /\ mcp.pc \in {"idle", "done"}
    /\ q[HostStream].pc = "idle"
    /\ \E method \in McpMethods, params \in ParamObjects :
         CASE method \in {"initialize", "initialized", "ping", "tools/list"} ->
                Respond(method, params, FALSE, ResultResponse("json")) /\ UNCHANGED q
           [] method = "tools/call" -> ToolCall(method, params)
           [] OTHER ->
                /\ Respond(method, params, FALSE,
                           ErrorResponse(METHOD_NOT_FOUND, "Method not found"))
                /\ UNCHANGED q
    /\ UNCHANGED <<auxVars, statVars, catalogVars, kernelVars, ingestVars>>

\* QueryEngineClient::execute_query: the loop over the stream's messages.
\* It ends at the Complete frame, whose `success` it does not read; a stream
\* that broke is a `Stream error`
ClientResult(stream) ==
    IF stream.dropped
    THEN ToolErr(Error("QueryExecutionFailed", "Stream error"))
    ELSE ToolOk("json")

\* handle_execute_query and handle_vscode_query_dataset once the stream has
\* ended, and the response of handle_tool_call
McpCollect ==
    /\ mcp.pc = "upstream"
    /\ q[HostStream].pc = "done"
    /\ mcp' = [mcp EXCEPT !.pc = "done",
                          !.upstream = q[HostStream].frames,
                          !.failed = q[HostStream].dropped
                                     \/ \E i \in 1..Len(q[HostStream].frames) :
                                          /\ q[HostStream].frames[i].type = "Complete"
                                          /\ ~q[HostStream].frames[i].success,
                          !.response = <<ToolResponse(ClientResult(q[HostStream]))>>]
    /\ q' = [q EXCEPT ![HostStream] = IdleQuery]
    /\ UNCHANGED <<auxVars, statVars, catalogVars, kernelVars, ingestVars>>

----------------------------------------------------------------------------
(* Specifications *)

----------------------------------------------------------------------------
(* Tool-Host handlers sharing the Arc<Mutex<QueryEngineClient>>
   (mcp_server.rs).  Every handler takes the lock before its downstream call
   and holds the guard until the handler returns. *)

MaxRequests == 2
MaxFrames == 2

HostRequests == 1..MaxRequests

\* The handlers that call the query engine.
LockedCalls ==
    {"list_datasets", "get_metadata", "execute_query", "vscode_query", "health_check"}

\* The calls whose response is a stream read to its Complete frame.
StreamingCalls == {"execute_query", "vscode_query"}

IdleHost == [pc |-> "idle", call |-> NONE, left |-> 0, ok |-> TRUE]

\* tokio::sync::Mutex: one holder, waiters served in arrival order.
Unlocked == [holder |-> 0, waiters |-> <<>>]

CanAcquireAlways(l, r) == l.waiters # <<>> /\ Head(l.waiters) = r

CanAcquire(l, r) == l.holder = 0 /\ l.waiters # <<>> /\ Head(l.waiters) = r

\* query_client.lock().await is reached: the request queues on the mutex.
HostRequest(r, call) ==
    /\ host[r].pc = "idle"
    /\ host' = [host EXCEPT ![r] = [IdleHost EXCEPT !.pc = "waiting", !.call = call]]
    /\ client_lock' = [client_lock EXCEPT !.waiters = Append(@, r)]
    /\ UNCHANGED <<engineVars, storeVars, cp, lm>>

\* lock().await returns the guard.
HostAcquire(r) ==
    /\ host[r].pc = "waiting"
    /\ CanAcquire(client_lock, r)
    /\ host' = [host EXCEPT ![r].pc = "locked"]
    /\ client_lock' = [holder |-> r, waiters |-> Tail(client_lock.waiters)]
    /\ UNCHANGED <<engineVars, storeVars, cp, lm>>

\* The downstream RPC is issued; a query stream has frames still to read.
HostCall(r) ==
    /\ host[r].pc = "locked"
    /\ \E n \in 0..MaxFrames :
         /\ host[r].call \notin StreamingCalls => n = 0
         /\ host' = [host EXCEPT ![r].pc = "in_flight", ![r].left = n]
    /\ UNCHANGED client_lock
    /\ UNCHANGED <<engineVars, storeVars, cp, lm>>

\* QueryEngineClient::execute_query reads one more frame of the stream.
HostReadFrame(r) ==
    /\ host[r].pc = "in_flight"
    /\ host[r].left > 0
    /\ host' = [host EXCEPT ![r].left = @ - 1]
    /\ UNCHANGED client_lock
    /\ UNCHANGED <<engineVars, storeVars, cp, lm>>

\* The call ends: its last frame was consumed, or it failed at any point.
HostCallEnds(r) ==
    /\ host[r].pc = "in_flight"
    /\ \E ok \in BOOLEAN :
         /\ ok => host[r].left = 0
         /\ host' = [host EXCEPT ![r].pc = "returning", ![r].ok = ok]
    /\ UNCHANGED client_lock
    /\ UNCHANGED <<engineVars, storeVars, cp, lm>>

\* The handler returns Ok or Err: the guard goes out of scope.
HostReturn(r) ==
    /\ host[r].pc = "returning"
    /\ host' = [host EXCEPT ![r] = IdleHost]
    /\ client_lock' = [client_lock EXCEPT !.holder = 0]
    /\ UNCHANGED <<engineVars, storeVars, cp, lm>>

----------------------------------------------------------------------------
(* DataFusionEngine::register_object_store (datafusion_engine.rs): the
   membership test on registered_buckets, the construction of the store and
   its registration, and the insert into registered_buckets are separate
   steps of the calling task. *)

MaxTasks == 2

Tasks == 1..MaxTasks

\* The dataset_path values register_dataset passes: the first file's
\* storage_path of each seeded dataset.
StorePaths == {f.storage_path : f \in SeedFiles}

\* `url.host_str()` of a dataset path
BucketOf(dataset_path) == dataset_path.bucket

Buckets == {BucketOf(p) : p \in StorePaths}

IdleStore == [pc |-> "idle", dataset_path |-> NONE, reused |-> FALSE, ok |-> TRUE]

\* register_dataset calls register_object_store with a dataset's path.
StoreCall(t, dataset_path) ==
    /\ ro[t].pc \in {"idle", "done"}
    /\ ro' = [ro EXCEPT ![t] = [IdleStore EXCEPT !.pc = "check",
                                                 !.dataset_path = dataset_path]]
    /\ UNCHANGED <<registered_buckets, object_stores>>
    /\ UNCHANGED <<engineVars, lockVars, cp, lm>>

\* `if self.registered_buckets.read().await.contains(&dataset_path)`: the read
\* guard is a temporary of the condition.
StoreCheck(t) ==
    /\ ro[t].pc = "check"
    /\ ro' = [ro EXCEPT ![t] =
                IF ro[t].dataset_path \in registered_buckets
                THEN [@ EXCEPT !.pc = "done", !.reused = TRUE]
                ELSE [@ EXCEPT !.pc = "build"]]
    /\ UNCHANGED <<registered_buckets, object_stores>>
    /\ UNCHANGED <<engineVars, lockVars, cp, lm>>

\* The builder for the URL's scheme and ctx.register_object_store; a builder
\* error returns ConfigError before anything is registered.
StoreBuild(t) ==
    /\ ro[t].pc = "build"
    /\ \E built \in BOOLEAN :
         IF SupportedScheme(ro[t].dataset_path.scheme) /\ built
         THEN /\ object_stores' =
                    [object_stores EXCEPT ![BucketOf(ro[t].dataset_path)] = @ + 1]
              /\ ro' = [ro EXCEPT ![t].pc = "insert"]
         ELSE /\ ro' = [ro EXCEPT ![t].pc = "done", ![t].ok = FALSE]
              /\ UNCHANGED object_stores
    /\ UNCHANGED registered_buckets
    /\ UNCHANGED <<engineVars, lockVars, cp, lm>>

\* `self.registered_buckets.write().await.insert(dataset_path)`
StoreInsert(t) ==
    /\ ro[t].pc = "insert"
    /\ registered_buckets' = registered_buckets \cup {ro[t].dataset_path}
    /\ ro' = [ro EXCEPT ![t].pc = "done"]
    /\ UNCHANGED object_stores
    /\ UNCHANGED <<engineVars, lockVars, cp, lm>>

----------------------------------------------------------------------------
(* DatasetStorage::copy_from_external_storage (storage.rs), one storage call
   per step.  A chunk of the source stream is a run of bytes [index, len];
   the buffer and every uploaded part are sequences of such runs. *)

MaxChunks == 3

\* `const BUFFER_SIZE: usize = 10 * 1024 * 1024`
BUFFER_SIZE == 10485760

ChunkSizes == {0, 1, BUFFER_SIZE - 1, BUFFER_SIZE}

\* The source object as the chunks its stream yields
SourceStreams ==
    {[i \in 1..Len(sizes) |-> [index |-> i, len |-> sizes[i]]] :
        sizes \in SeqsUpTo(ChunkSizes, MaxChunks)}

CopySchemes == {"gs", "s3", "ftp"}

IdleCopy ==
    [pc |-> "idle", chunks |-> <<>>, stream |-> <<>>, buffer |-> <<>>,
     parts |-> <<>>, part_number |-> 0, total_bytes |-> 0, ops |-> <<>>,
     completed |-> 0, ok |-> TRUE, failed_at |-> NONE]

\* `buffer.extend_from_slice(&chunk)`: an empty chunk adds no byte
ExtendFromSlice(buffer, chunk) ==
    IF chunk.len = 0 THEN buffer ELSE Append(buffer, chunk)

RECURSIVE BufferLen(_)
BufferLen(buffer) ==
    IF buffer = <<>> THEN 0 ELSE Head(buffer).len + BufferLen(Tail(buffer))

\* `if buffer.len() >= BUFFER_SIZE`
BufferFull(buffer) == BufferLen(buffer) >= BUFFER_SIZE

FinalPartDropped(buffer) == FALSE

\* `if !buffer.is_empty()`: the remainder is uploaded as the final part
FinalPart(buffer) == buffer # <<>>

\* A `?` of copy_from_external_storage: the call returns ConfigError.
CopyFails(step) ==
    [cp EXCEPT !.pc = "done", !.ok = FALSE, !.failed_at = step]

\* The call, up to the choice of the source client by URL scheme
CopyCall ==
    /\ cp.pc \in {"idle", "done"}
    /\ \E scheme \in CopySchemes, chunks \in SourceStreams :
         cp' = IF SupportedScheme(scheme)
               THEN [IdleCopy EXCEPT !.pc = "get", !.chunks = chunks, !.stream = chunks]
               ELSE [IdleCopy EXCEPT !.pc = "done", !.ok = FALSE, !.failed_at = "scheme"]
    /\ UNCHANGED <<engineVars, lockVars, storeVars, lm>>

\* `source_store.get(&source_object_path)`
CopyGet ==
    /\ cp.pc = "get"
    /\ \E opened \in BOOLEAN :
         cp' = [(IF opened THEN [cp EXCEPT !.pc = "put_multipart"] ELSE CopyFails("get"))
                  EXCEPT !.ops = Append(cp.ops, "get")]
    /\ UNCHANGED <<engineVars, lockVars, storeVars, lm>>

\* `self.store.put_multipart(&dest_path)`
CopyPutMultipart ==
    /\ cp.pc = "put_multipart"
    /\ \E started \in BOOLEAN :
         cp' = [(IF started THEN [cp EXCEPT !.pc = "read"]
                 ELSE CopyFails("put_multipart"))
                  EXCEPT !.ops = Append(cp.ops, "put_multipart")]
    /\ UNCHANGED <<engineVars, lockVars, storeVars, lm>>

\* `stream.next().await`: the end of the stream, a read error, or a chunk
\* that is appended to the buffer
CopyRead ==
    /\ cp.pc = "read"
    /\ IF cp.stream = <<>>
       THEN cp' = [cp EXCEPT !.pc = "final"]
       ELSE \E read \in BOOLEAN :
              cp' = IF ~read THEN CopyFails("read")
                    ELSE LET chunk == Head(cp.stream)
                             buffer == ExtendFromSlice(cp.buffer, chunk)
                         IN [cp EXCEPT !.stream = Tail(@),
                                       !.buffer = buffer,
                                       !.total_bytes = @ + chunk.len,
                                       !.pc = IF BufferFull(buffer) THEN "put_part"
                                              ELSE "read"]
    /\ UNCHANGED <<engineVars, lockVars, storeVars, lm>>

\* `multipart.put_part(buffer.clone().into())` inside the loop
CopyPutPart ==
    /\ cp.pc = "put_part"
    /\ \E uploaded \in BOOLEAN :
         cp' = [(IF uploaded
                 THEN [cp EXCEPT !.parts = Append(@, cp.buffer), !.buffer = <<>>,
                                 !.part_number = @ + 1, !.pc = "read"]
                 ELSE CopyFails("put_part"))
                  EXCEPT !.ops = Append(cp.ops, "put_part")]
    /\ UNCHANGED <<engineVars, lockVars, storeVars, lm>>

\* The final part after the loop
CopyFinalPart ==
    /\ cp.pc = "final"
    /\ IF FinalPart(cp.buffer)
       THEN \E uploaded \in BOOLEAN :
              cp' = [(IF uploaded
                      THEN [cp EXCEPT !.parts = Append(@, cp.buffer),
                                      !.part_number = @ + 1, !.pc = "complete"]
                      ELSE CopyFails("final_part"))
                       EXCEPT !.ops = Append(cp.ops, "put_part")]
       ELSE cp' = [cp EXCEPT !.pc = "complete"]
    /\ UNCHANGED <<engineVars, lockVars, storeVars, lm>>

\* `multipart.complete()` and the Ok(storage_path) that follows it
CopyComplete ==
    /\ cp.pc = "complete"
    /\ \E completed \in BOOLEAN :
         cp' = [(IF completed THEN [cp EXCEPT !.pc = "done"]
                 ELSE CopyFails("complete"))
                  EXCEPT !.ops = Append(cp.ops, "complete"),
                         !.completed = cp.completed + 1]
    /\ UNCHANGED <<engineVars, lockVars, storeVars, lm>>

----------------------------------------------------------------------------
(* DatabaseManager::load_metadata called with any id (database.rs) *)

\* `present`: whether the root row of the id is in `datasets` at the call
IdleLoad ==
    [pc |-> "idle", dataset_id |-> NONE, fault |-> "none", present |-> FALSE,
     result |-> <<>>]

LoadMetadataCall ==
    /\ \E id \in AllIds, fault \in LoadFaults, msg \in Messages :
         lm' = [pc |-> "done", dataset_id |-> id, fault |-> fault,
                present |-> id \in DatasetIdsOf(datasets),
                result |-> <<LoadMetadata(id, fault, msg)>>]
    /\ UNCHANGED <<engineVars, lockVars, storeVars, cp>>

Init ==
    /\ datasets = SeedDatasets
    /\ dataset_files = SeedFiles
    /\ bucket = {[dataset_id |-> f.dataset_id, filename |-> f.filename] : f \in SeedFiles}
    /\ tables = {}
    /\ base = NONE
    /\ tableCalls = [id \in AllIds |-> 0]
    /\ q = [s \in Streams |-> IdleQuery]
    /\ a = IdleAdd
    /\ g = IdleGet
    /\ listed = NotListed
    /\ ingests = {}
    /\ dataset_columns = {}
    /\ dataset_statistics = {}
    /\ sm = IdleSave
    /\ mcp = IdleMcp
    /\ host = [r \in HostRequests |-> IdleHost]
    /\ client_lock = Unlocked
    /\ registered_buckets = {}
    /\ object_stores = [b \in Buckets |-> 0]
    /\ ro = [t \in Tasks |-> IdleStore]
    /\ cp = IdleCopy
    /\ lm = IdleLoad

NextQuery ==
    \E s \in Streams :
        \/ ExecuteQuery(s)
        \/ QueryCheckRegistered(s)
        \/ QueryRegister(s)
        \/ BindBase(s)
        \/ RunSql(s)
        \/ SendMetadata(s)
        \/ SendChunk(s)
        \/ SendComplete(s)
        \/ SendError(s)

NextIngest ==
    \/ AddDataset
    \/ CopyFile
    \/ AddDatasetRow
    \/ SaveMetadata
    \/ AddRegister
    \/ AddReply
    \/ ListDatasets

NextMetadata ==
    \/ GetMetadata
    \/ GetCheckRegistered
    \/ GetRegister
    \/ GetSchema

NextRead == NextMetadata \/ ListDatasets

NextCatalog == SaveMetadataCall

\* The Tool-Host and the stream of the engine it reads
NextToolHost ==
    \/ McpRequest
    \/ McpCollect
    \/ QueryCheckRegistered(HostStream)
    \/ QueryRegister(HostStream)
    \/ BindBase(HostStream)
    \/ RunSql(HostStream)
    \/ SendMetadata(HostStream)
    \/ SendChunk(HostStream)
    \/ SendComplete(HostStream)
    \/ SendError(HostStream)

\* One ExecuteQuery stream, with the SQL text and the limit of the request
NextSql ==
    \/ ExecuteSql(1)
    \/ QueryCheckRegistered(1)
    \/ QueryRegister(1)
    \/ BindBase(1)
    \/ RunSql(1)
    \/ SendMetadata(1)
    \/ SendChunk(1)
    \/ SendComplete(1)
    \/ SendError(1)

\* The ExecuteQuery streams of one process
SpecQuery == Init /\ [][NextQuery]_vars

\* The AddDataset and ListDatasets calls of one process
SpecIngest == Init /\ [][NextIngest]_vars

\* One ExecuteQuery stream over the statements and limits
SpecSql == Init /\ [][NextSql]_vars

\* The read-only calls of one process: GetMetadata and ListDatasets
SpecMetadata == Init /\ [][NextRead]_vars

\* Requests to the Tool-Host, one at a time
SpecToolHost == Init /\ [][NextToolHost]_vars

\* Calls of save_metadata on the seeded catalog
SpecCatalog == Init /\ [][NextCatalog]_vars

\* Concurrent Tool-Host requests on the shared client.  The runtime polls
\* every ready task and the mutex serves its waiters in arrival order, so each
\* step of a handler is weakly fair; the downstream service is taken to answer.
NextHostLock ==
    \E r \in HostRequests :
        \/ \E call \in LockedCalls : HostRequest(r, call)
        \/ HostAcquire(r)
        \/ HostCall(r)
        \/ HostReadFrame(r)
        \/ HostCallEnds(r)
        \/ HostReturn(r)

FairHostLock ==
    \A r \in HostRequests :
        /\ WF_vars(HostAcquire(r))
        /\ WF_vars(HostCall(r))
        /\ WF_vars(HostReadFrame(r))
        /\ WF_vars(HostCallEnds(r))
        /\ WF_vars(HostReturn(r))

SpecHostLock == Init /\ [][NextHostLock]_vars /\ FairHostLock

\* Tasks calling register_object_store, interleaved at every step
NextStore ==
    \E t \in Tasks :
        \/ \E dataset_path \in StorePaths : StoreCall(t, dataset_path)
        \/ StoreCheck(t)
        \/ StoreBuild(t)
        \/ StoreInsert(t)

SpecStore == Init /\ [][NextStore]_vars

\* Calls of copy_from_external_storage
NextCopy ==
    \/ CopyCall
    \/ CopyGet
    \/ CopyPutMultipart
    \/ CopyRead
    \/ CopyPutPart
    \/ CopyFinalPart
    \/ CopyComplete

SpecCopy == Init /\ [][NextCopy]_vars

\* Calls of load_metadata next to the GetMetadata calls that use it
NextLoad == LoadMetadataCall \/ NextMetadata

SpecLoad == Init /\ [][NextLoad]_vars

\* One ExecuteQuery stream with its client
EngineCall(s) ==
    \/ QueryCheckRegistered(s)
    \/ QueryRegister(s)
    \/ BindBase(s)
    \/ RunLargeSql(s)

Sends(s) ==
    \/ SendMetadata(s)
    \/ SendChunk(s)
    \/ SendComplete(s)
    \/ SendError(s)

NextChannel ==
    \/ ExecuteQuery(HostStream)
    \/ EngineCall(HostStream)
    \/ Sends(HostStream)
    \/ Receive(HostStream)

\* A send that the channel accepts
Delivers(s) == Sends(s) /\ ~q'[s].dropped

\* The spawned task is polled whenever its send can complete, and a client
\* that has not dropped the stream keeps reading it: both are weakly fair.
\* A client that drops the stream is a choice of the client, under no fairness.
FairChannel ==
    /\ WF_vars(Delivers(HostStream))
    /\ WF_vars(Receive(HostStream))

\* engine.execute_query(..).await returns: the task does not stay inside it
EngineCallReturns ==
    []<>(q[HostStream].pc \notin {"check", "register", "bind", "run"})

SpecChannel == Init /\ [][NextChannel]_vars /\ FairChannel /\ EngineCallReturns

\* The whole engine: queries, ingestion, listing and metadata reads
Next == NextQuery \/ NextIngest \/ NextMetadata \/ NextCatalog \/ NextSql

Spec == Init /\ [][Next]_vars

----------------------------------------------------------------------------
(* Claims about the ExecuteQuery stream *)

IsType(frame, type) == frame.type = type

ChunkFrames(frames) == SelectSeq(frames, LAMBDA f : f.type = "DataChunk")

RECURSIVE SumChunkRows(_)
SumChunkRows(frames) ==
    IF frames = <<>> THEN 0
    ELSE Head(frames).chunk_rows + SumChunkRows(Tail(frames))

\* The producer has returned and every send it made was delivered
Delivered(s) == q[s].pc = "done" /\ ~q[s].dropped

\* Metadata only first, chunk_index strictly increasing, Complete only last
FramesInOrder(frames) ==
    /\ \A i \in 1..Len(frames) : IsType(frames[i], "Metadata") => i = 1
    /\ \A i \in 1..Len(frames) : IsType(frames[i], "Complete") => i = Len(frames)
    /\ \A i, j \in 1..Len(frames) :
         (i < j /\ IsType(frames[i], "DataChunk") /\ IsType(frames[j], "DataChunk"))
            => frames[i].chunk_index < frames[j].chunk_index

\* C1: in every stream the frames put on the channel are, in this order, at
\* most one Metadata frame, DataChunk frames with strictly increasing
\* chunk_index, and a Complete frame after which nothing is sent; a producer
\* that returned with every send delivered has sent exactly one Complete.
C1_FrameOrder ==
    \A s \in Streams :
        /\ FramesInOrder(q[s].frames)
        /\ Delivered(s) =>
             /\ q[s].frames # <<>>
             /\ IsType(q[s].frames[Len(q[s].frames)], "Complete")

\* A stream that delivered Metadata, several DataChunks and Complete
C1_Witness ==
    \E s \in Streams :
        /\ Delivered(s)
        /\ Len(q[s].frames) >= 4
        /\ IsType(q[s].frames[1], "Metadata")
        /\ IsType(q[s].frames[2], "DataChunk")
        /\ IsType(q[s].frames[3], "DataChunk")
        /\ IsType(q[s].frames[Len(q[s].frames)], "Complete")

\* C2: a query that succeeded and was fully delivered carries DataChunks with
\* chunk_index 0, 1, .., n-1 across all batches, ends with Complete{success},
\* and the chunk_rows add up to Complete.total_rows and to
\* Metadata.estimated_rows.
C2_ContiguousAndSums ==
    \A s \in Streams :
        (Delivered(s) /\ q[s].err = <<>>) =>
            LET frames == q[s].frames
                chunks == ChunkFrames(frames)
                last == frames[Len(frames)]
            IN /\ \A i \in 1..Len(chunks) : chunks[i].chunk_index = i - 1
               /\ Len(chunks) = Len(q[s].result.chunks)
               /\ IsType(last, "Complete") /\ last.success
               /\ SumChunkRows(chunks) = last.total_rows
               /\ \A i \in 1..Len(frames) :
                    IsType(frames[i], "Metadata")
                        => frames[i].estimated_rows = last.total_rows
               /\ last.total_rows = SumRows(q[s].batches)

\* A delivered result of two batches that both produced chunks
C2_Witness ==
    \E s \in Streams :
        /\ Delivered(s) /\ q[s].err = <<>>
        /\ Len(q[s].batches) >= 2
        /\ \A i \in 1..Len(q[s].batches) : q[s].batches[i] > 0
        /\ Len(ChunkFrames(q[s].frames)) >= 4

\* C3: a query that failed in the engine puts exactly one frame on the
\* channel: Complete with success = false, total_rows = 0 and a non-empty
\* error_message; no Metadata and no DataChunk frame.
C3_FailureIsOneComplete ==
    \A s \in Streams :
        q[s].err # <<>> =>
            /\ \A i \in 1..Len(q[s].frames) : IsType(q[s].frames[i], "Complete")
            /\ Delivered(s) =>
                 /\ Len(q[s].frames) = 1
                 /\ ~q[s].frames[1].success
                 /\ q[s].frames[1].total_rows = 0
                 /\ q[s].frames[1].error_message # ""

\* A delivered failure whose collaborator gave no message of its own
C3_Witness ==
    \E s \in Streams :
        /\ Delivered(s) /\ q[s].err # <<>>
        /\ q[s].err[1].kind = "QueryExecutionFailed"
        /\ q[s].err[1].message = ""

\* C4: every DataChunk built by execute has 0 < chunk_rows <= CHUNK_SIZE,
\* whatever the sizes of the result batches.
C4_ChunkRowsBounded ==
    \A s \in Streams :
        /\ \A i \in 1..Len(q[s].result.chunks) :
             /\ q[s].result.chunks[i].chunk_rows > 0
             /\ q[s].result.chunks[i].chunk_rows <= CHUNK_SIZE
        /\ \A i \in 1..Len(q[s].frames) :
             IsType(q[s].frames[i], "DataChunk") =>
                /\ q[s].frames[i].chunk_rows > 0
                /\ q[s].frames[i].chunk_rows <= CHUNK_SIZE

\* A result with an empty batch and a batch of an exact multiple of CHUNK_SIZE
C4_Witness ==
    \E s \in Streams :
        /\ \E i \in 1..Len(q[s].batches) : q[s].batches[i] = 0
        /\ \E i \in 1..Len(q[s].batches) : q[s].batches[i] = CHUNK_SIZE
        /\ q[s].result.chunks # <<>>
        /\ q[s].pc = "done"

\* C5: register_dataset is called at most once for each dataset during the
\* process lifetime, under every interleaving of the calls that name it: no
\* second call gets as far as registering the dataset's table.
C5_RegisterAtMostOnce ==
    \A id \in AllIds : tableCalls[id] <= 1

\* C6: the `base` of a call resolves to the provider of that call's
\* dataset_id, and binding `base` never makes the call fail.
C6_BaseIsOwnDataset ==
    \A s \in Streams :
        /\ q[s].resolved # NONE => q[s].resolved = q[s].dataset_id
        /\ q[s].err # <<>> =>
             q[s].err[1] # Error("DataFusionError", "The table base already exists")

----------------------------------------------------------------------------
(* Claims about ingestion and the catalog *)

Occurrences(seq, id) == Cardinality({i \in 1..Len(seq) : seq[i].id = id})

SetOf(seq) == {seq[i] : i \in 1..Len(seq)}

\* C7: once AddDataset has succeeded with id D, every ListDatasets answer
\* read from the catalog afterwards has exactly one entry with id D.
C7_ListedAfterAdd ==
    listed.ok => \A id \in listed.after : Occurrences(listed.datasets, id) = 1

\* A successful list taken after a successful AddDataset of several files
C7_Witness ==
    /\ listed.ok
    /\ \E r \in ingests : r.id \in listed.after /\ Len(r.copied) >= 2

\* The format the claim expects from the argument and the copied filenames
ExpectedFormat(format_arg, copied) ==
    IF format_arg # "" THEN format_arg
    ELSE IF \E i \in 1..Len(copied) : EndsWith(copied[i], Str_dot \o Str_parquet)
    THEN "parquet"
    ELSE "csv"

\* C8: the recorded format of an ingested dataset is the format argument
\* when csv, parquet or json is given, else parquet when a copied filename
\* ends in .parquet, else csv; ListDatasets reports the same format.
C8_FormatRecorded ==
    \A r \in ingests :
        (r.outcome = "ok" /\ r.format_arg \in {"", "csv", "parquet", "json"}) =>
            /\ RowOf(datasets, r.id).format = ExpectedFormat(r.format_arg, r.copied)
            /\ \A i \in 1..Len(listed.datasets) :
                 listed.datasets[i].id = r.id =>
                    listed.datasets[i].format = ExpectedFormat(r.format_arg, r.copied)

\* C9: when the copy of a file fails, the call returns an error, no row of
\* `datasets` or `dataset_files` is ever written for the minted id, and the
\* files copied before it stay in the managed bucket.
C9_CopyFailureWritesNothing ==
    /\ \A r \in ingests :
         r.copy_failed =>
            /\ r.outcome = "copy_failed"
            /\ r.id \notin DatasetIdsOf(datasets)
            /\ FilesOf(r.id) = {}
            /\ \A i \in 1..Len(r.copied) :
                 [dataset_id |-> r.id, filename |-> r.copied[i]] \in bucket
    /\ a.copy_failed => a.pc = "done"
    /\ (a.pc = "done" /\ a.outcome = "copy_failed") => ~a.response[1].success

\* The second file of a directory failed after the first was copied
C9_Witness ==
    \E r \in ingests :
        /\ r.copy_failed
        /\ Len(r.copied) >= 1
        /\ a.pc = "done" /\ a.id = r.id

\* The ingests whose files are all copied: the one in its persistence step
\* and those that returned after it
Persisting ==
    {[id |-> r.id, copied |-> r.copied] :
        r \in {x \in ingests : x.outcome \in {"insert_failed", "save_failed",
                                              "register_failed", "ok"}}}
    \cup (IF a.pc \in {"add_dataset", "save_metadata", "register", "reply"}
          THEN {[id |-> a.id, copied |-> Filenames(a.files)]} ELSE {})

\* C10: the dataset row and its file rows are written in one transaction:
\* in every catalog state either the row and all of its file rows are there
\* or none of them is.
C10_RowAndFilesTogether ==
    \A p \in Persisting :
        LET stored == {f.filename : f \in FilesOf(p.id)} IN
        \/ p.id \in DatasetIdsOf(datasets) /\ stored = SetOf(p.copied)
        \/ p.id \notin DatasetIdsOf(datasets) /\ stored = {}

----------------------------------------------------------------------------
(* Claims about save_metadata *)

FileRowsOf(metadata) ==
    {[dataset_id |-> metadata.id, filename |-> metadata.files[i].filename,
      storage_path |-> metadata.files[i].storage_path] : i \in 1..Len(metadata.files)}

ColumnRowsOf(metadata) ==
    {[dataset_id |-> metadata.id, name |-> metadata.columns[i].name] :
        i \in 1..Len(metadata.columns)}

StatRowsOf(id, statistics) ==
    {[dataset_id |-> id, stat_key |-> statistics[i].key,
      stat_value |-> statistics[i].value] : i \in 1..Len(statistics)}

\* C11: save_metadata is all-or-nothing. When it fails it returns ConfigError
\* and dataset_files, dataset_columns and dataset_statistics are exactly as
\* they were before the call; when it returns Ok every file, column and
\* statistic of its argument is in the catalog.
C11_SaveMetadataAllOrNothing ==
    sm.pc = "done" =>
        IF sm.ok
        THEN /\ FileRowsOf(sm.metadata) \subseteq dataset_files
             /\ ColumnRowsOf(sm.metadata) \subseteq dataset_columns
             /\ StatRowsOf(sm.metadata.id, sm.metadata.statistics)
                    \subseteq dataset_statistics
        ELSE /\ sm.err # <<>> /\ sm.err[1].kind = "ConfigError"
             /\ CurrentDb = sm.before

\* A call failed after its closure had already written a row
C11_Witness ==
    /\ sm.pc = "done" /\ ~sm.ok /\ sm.wrote
    /\ CurrentDb = sm.before

\* C12: two calls of save_metadata for the same dataset with the same
\* stat_key and different stat_values both succeed and leave exactly one row
\* for (dataset_id, stat_key), holding the second value, whatever files and
\* columns the two arguments carry. (Calls the database itself fails are
\* left out.)
C12_StatisticsUpsert ==
    (/\ sm.pc = "done" /\ ~sm.faulted
     /\ sm.prev # <<>> /\ sm.prev[1].ok /\ sm.prev[1].id = sm.metadata.id) =>
        \A i \in 1..Len(sm.prev[1].statistics), j \in 1..Len(sm.metadata.statistics) :
            LET first == sm.prev[1].statistics[i]
                second == sm.metadata.statistics[j]
            IN (first.key = second.key /\ first.value # second.value) =>
                 /\ sm.ok
                 /\ {row \in dataset_statistics :
                        row.dataset_id = sm.metadata.id /\ row.stat_key = second.key}
                    = StatRowsOf(sm.metadata.id, <<second>>)


----------------------------------------------------------------------------
(* Claims about the SQL text, the limit and client disconnects *)

CompleteFrames(frames) == SelectSeq(frames, LAMBDA f : f.type = "Complete")

\* The status the RPC ends with: that of the first Err item the producer
\* puts on the channel, OK when the channel closes without one
StreamStatus(frames) ==
    IF \E i \in 1..Len(frames) : frames[i].type = "Status"
    THEN frames[CHOOSE i \in 1..Len(frames) : frames[i].type = "Status"].code
    ELSE "Ok"

\* C13: when the user SQL does not contain `limit` (in any case) and the
\* request carries limit = L > 0, the executed SQL is the user SQL followed
\* by ` LIMIT L` and Complete.total_rows <= L; when the SQL contains `limit`
\* it is executed unchanged.
C13_LimitLaw ==
    \A s \in Streams :
        q[s].executed # <<>> =>
            IF Contains(Lower(q[s].sql_query), Str_limit)
            THEN q[s].executed = q[s].sql_query
            ELSE q[s].limit > 0 =>
                   /\ q[s].executed
                        = q[s].sql_query \o Str_limit_clause \o ToDecimal(q[s].limit)
                   /\ \A i \in 1..Len(q[s].frames) :
                        q[s].frames[i].type = "Complete" =>
                            q[s].frames[i].total_rows <= q[s].limit

\* C14: the first failed channel send stops the producer: after it the task
\* attempts no further send and has terminated.
C14_DisconnectStopsProducer ==
    [][\A s \in Streams :
          q[s].dropped =>
              /\ q[s].pc = "done"
              /\ q'[s].pc = "done"
              /\ q'[s].attempts = q[s].attempts
              /\ q'[s].frames = q[s].frames]_vars

\* A send of a Metadata or DataChunk frame failed while chunks were still to
\* be sent, and the task has ended without sending them
C14_Witness ==
    \E s \in Streams :
        /\ q[s].dropped /\ q[s].pc = "done"
        /\ q[s].chunk_index < Len(q[s].result.chunks)
        /\ q[s].attempts = Len(q[s].frames) + 1
        /\ CompleteFrames(q[s].frames) = <<>>

\* C15: an ExecuteQuery whose SQL fails to parse emits one
\* Complete{success=false} frame with a non-empty error_message and no data
\* frames, and the RPC ends with status InvalidArgument.
C15_ParseErrorIsInvalidArgument ==
    \A s \in Streams :
        (/\ q[s].pc = "done" /\ ~q[s].dropped
         /\ q[s].executed # <<>> /\ ~ParseSql(q[s].executed).ok) =>
            /\ Len(q[s].frames) = 1
            /\ q[s].frames[1].type = "Complete"
            /\ ~q[s].frames[1].success
            /\ q[s].frames[1].error_message # ""
            /\ StreamStatus(q[s].frames) = "InvalidArgument"

----------------------------------------------------------------------------
(* Claims about GetMetadata and the status mapping *)

ExpectedCode(kind) ==
    CASE kind = "DatasetNotFound" -> "NotFound"
      [] kind = "InvalidSqlQuery" -> "InvalidArgument"
      [] kind = "ConfigError" -> "InvalidArgument"
      [] kind = "QueryExecutionFailed" -> "Internal"
      [] OTHER -> "Internal"

\* C17: the RPC status of a core failure is NotFound for DatasetNotFound,
\* InvalidArgument for InvalidSqlQuery and ConfigError, and Internal for
\* QueryExecutionFailed and every other kind; its message is the error's
\* string form.
C17_StatusMapping ==
    /\ \A kind \in Kinds, msg \in Messages :
         /\ StatusFrom(Error(kind, msg)).code = ExpectedCode(kind)
         /\ StatusFrom(Error(kind, msg)).message = ErrorToString(Error(kind, msg))
    /\ (g.pc = "done" /\ g.err # <<>>) =>
         /\ g.status # <<>>
         /\ g.status[1].code = ExpectedCode(g.err[1].kind)

\* GetMetadata has failed with a ConfigError and with a kernel error
C17_Witness ==
    /\ g.pc = "done" /\ g.err # <<>>
    /\ g.err[1].kind = "ConfigError"
    /\ g.status = <<Status("InvalidArgument", ErrorToString(g.err[1]))>>

----------------------------------------------------------------------------
(* Claims about the AddDataset response *)

FixedMessages ==
    {"Dataset name is required", "Source path is required",
     "Failed to add dataset. Please check the source path and try again."}

\* C18: AddDataset never returns an error status. With an empty name or
\* source_path and on every ingest or registration failure it returns an OK
\* response with success=false, an empty dataset_id, no dataset and one of
\* the fixed messages; with an empty name or source_path no id is minted, no
\* copy and no catalog write is attempted.
C18_AddDatasetNeverRaises ==
    /\ [](a.pc = "done" =>
            /\ Len(a.response) = 1
            /\ a.outcome # "ok" =>
                 /\ ~a.response[1].success
                 /\ a.response[1].dataset_id = ""
                 /\ a.response[1].dataset = <<>>
                 /\ a.response[1].message \in FixedMessages
            /\ a.outcome = "invalid" =>
                 /\ a.id = NONE
                 /\ a.response[1].message
                      \in {"Dataset name is required", "Source path is required"})
    /\ [][(a.pc \in {"idle", "done"} /\ a'.pc = "done" /\ a'.outcome = "invalid") =>
             UNCHANGED <<catalogVars, kernelVars, ingests>>]_vars

\* The registration of an ingested dataset failed after its catalog rows
\* were written, and the call answered with the fixed failure message
C18_Witness ==
    /\ a.pc = "done" /\ a.outcome = "register_failed"
    /\ a.id \in DatasetIdsOf(datasets)
    /\ a.response = <<FailureResponse>>

----------------------------------------------------------------------------
(* Claims about the Tool-Host *)

FailedCompletes(frames) ==
    SelectSeq(frames, LAMBDA f : f.type = "Complete" /\ ~f.success)

\* C19: whenever the upstream engine fails a query issued through the
\* execute_query or mcp_reader-servic_query_dataset tool (the stream ends with
\* Complete{success=false}), the tools/call response is a JSON-RPC error with
\* code -32603 and the error's string form as message, never a result object.
C19_UpstreamFailureIsInternalError ==
    (mcp.pc = "done" /\ FailedCompletes(mcp.upstream) # <<>>) =>
        /\ mcp.response[1].result = <<>>
        /\ mcp.response[1].error # <<>>
        /\ mcp.response[1].error[1].code = -32603
        /\ mcp.response[1].error[1].message # ""

KnownMethods == {"initialize", "initialized", "ping", "tools/list", "tools/call"}

RequiredFields(tool) ==
    CASE tool = "get_metadata" -> {"dataset_id"}
      [] tool = "execute_query" -> {"dataset_id", "sql_query"}
      [] tool = "mcp_reader-servic_query_dataset" -> {"datasets"}
      [] OTHER -> {}

\* The params of a tools/call are missing or invalid
InvalidParams(params) ==
    \/ params = <<>>
    \/ params[1].name = <<>>
    \/ \E field \in RequiredFields(params[1].name[1]) :
         \/ params[1].arguments = <<>>
         \/ params[1].arguments[1][field] = <<>>

ErrorCode(response) == IF response.error = <<>> THEN 0 ELSE response.error[1].code

\* C20: the Tool-Host answers an unknown method with -32601, a tools/call
\* whose params are missing or invalid (no params, no tool name, arguments
\* without the tool's required fields) with -32602, and uses -32603 only for
\* upstream failures.
C20_ErrorCodes ==
    mcp.pc = "done" =>
        /\ mcp.method \notin KnownMethods => ErrorCode(mcp.response[1]) = -32601
        /\ (mcp.method = "tools/call" /\ InvalidParams(mcp.params)) =>
             ErrorCode(mcp.response[1]) = -32602
        /\ ErrorCode(mcp.response[1]) = -32603 => mcp.failed

----------------------------------------------------------------------------
(* Claims about the lock around the shared client *)

InFlight == {r \in HostRequests : host[r].pc = "in_flight"}

Holding(r) == host[r].pc \in {"locked", "in_flight", "returning"}

\* C21: at most one downstream call is in flight at any time, the lock is held
\* exactly by a request between acquiring it and returning (so it is free once
\* the call has ended with success or with an error and the handler returned),
\* and every waiting request eventually gets the lock.
C21_OneCallInFlight ==
    /\ [](/\ Cardinality(InFlight) <= 1
          /\ \A r \in HostRequests : Holding(r) <=> client_lock.holder = r)
    /\ \A r \in HostRequests : (host[r].pc = "waiting") ~> (host[r].pc = "locked")

\* One request waits while the other's query stream is in flight after a frame
\* was read.
C21_Witness ==
    \E r, w \in HostRequests :
        /\ host[r].pc = "in_flight" /\ host[r].call = "execute_query"
        /\ host[r].left = MaxFrames - 1
        /\ host[w].pc = "waiting"

----------------------------------------------------------------------------
(* Claims about object stores and the copy into the managed bucket *)

\* C22: under any interleaving of register_object_store calls, each bucket's
\* object store is built and registered exactly once: no bucket ever has a
\* second store built and registered for it.
C22_StoreBuiltOncePerBucket ==
    \A b \in Buckets : object_stores[b] <= 1

\* The storage calls of one copy, in the order they were issued
StorageCalls == cp.ops

\* C23: ingestion first attempts a direct server-side copy(src, dst) and opens
\* the streaming multipart upload only after that attempt failed.
C23_DirectCopyFirst ==
    StorageCalls # <<>> => StorageCalls[1] = "copy"

RECURSIVE Concat(_)
Concat(parts) ==
    IF parts = <<>> THEN <<>> ELSE Head(parts) \o Concat(Tail(parts))

\* The bytes of the chunks read so far
BytesRead ==
    LET n == Len(cp.chunks) - Len(cp.stream)
    IN Concat([i \in 1..n |-> ExtendFromSlice(<<>>, cp.chunks[i])])

CompleteCalls == Len(SelectSeq(cp.ops, LAMBDA op : op = "complete"))

\* C28: in a streaming multipart copy the parts are uploaded in source order:
\* the parts followed by the buffer are at every moment the bytes read so far;
\* a part is flushed each time the buffer reaches 10 MiB, so every part but a
\* final remainder holds at least BUFFER_SIZE bytes and none is empty;
\* complete() is called at most once, only when the whole source was read and
\* every byte of it is in an uploaded part, and never after a failed read or
\* put_part; a successful copy called it exactly once.
C28_MultipartCopy ==
    /\ Concat(cp.parts) \o (IF cp.pc \in {"complete", "done"} /\ cp.failed_at \notin {"read", "put_part", "final_part"}
                            THEN <<>> ELSE cp.buffer) = BytesRead
    /\ cp.part_number = Len(cp.parts)
    /\ \A i \in 1..Len(cp.parts) :
         /\ cp.parts[i] # <<>>
         /\ (i < Len(cp.parts) \/ cp.pc \in {"read", "put_part"}) =>
                BufferLen(cp.parts[i]) >= BUFFER_SIZE
    /\ cp.pc = "read" => BufferLen(cp.buffer) < BUFFER_SIZE
    /\ CompleteCalls <= 1
    /\ CompleteCalls = 1 =>
         /\ cp.stream = <<>>
         /\ Concat(cp.parts) = Concat([i \in 1..Len(cp.chunks) |->
                                          ExtendFromSlice(<<>>, cp.chunks[i])])
         /\ cp.ops[Len(cp.ops)] = "complete"
         /\ cp.failed_at \in {NONE, "complete"}
    /\ (cp.pc = "done" /\ cp.ok) => CompleteCalls = 1
    /\ cp.failed_at \in {"get", "put_multipart", "read", "put_part", "final_part",
                         "scheme"} => CompleteCalls = 0

\* A copy that flushed a full part inside the loop, uploaded a remainder as
\* the final part, and completed.
C28_Witness ==
    /\ cp.pc = "done" /\ cp.ok
    /\ Len(cp.parts) = 2
    /\ BufferLen(cp.parts[1]) >= BUFFER_SIZE
    /\ BufferLen(cp.parts[2]) < BUFFER_SIZE
    /\ Len(cp.chunks) = MaxChunks

----------------------------------------------------------------------------
(* Claims about empty results, listing and the catalog's files *)

\* C24: when a query's result is empty (no batches, or only batches with 0
\* rows), the result has no metadata and no chunks, and a stream read to its
\* end is the single frame Complete{total_rows = 0, success = true}.
C24_EmptyResultIsOneComplete ==
    \A s \in Streams :
        (q[s].pc \in {"metadata", "chunks", "complete", "done"}
            /\ q[s].err = <<>> /\ SumRows(q[s].batches) = 0) =>
            /\ q[s].result = [metadata |-> <<>>, chunks |-> <<>>]
            /\ Delivered(s) => q[s].frames = <<CompleteFrame(0, TRUE, "")>>

\* C25: ListDatasets never fails: every answer is a list, which is empty when
\* the catalog read failed and has exactly one entry per row of `datasets`,
\* with that row's id, when the read succeeded.
C25_ListNeverFails ==
    [][listed' # listed =>
         IF listed'.ok
         THEN /\ Len(listed'.datasets) = Len(datasets)
              /\ \A i \in 1..Len(datasets) :
                   Occurrences(listed'.datasets, datasets[i].id) = 1
         ELSE listed'.datasets = <<>>]_vars

\* A failed read answered with the empty list after an ingest added a row
C25_Witness ==
    /\ listed # NotListed
    /\ ~listed.ok /\ listed.datasets = <<>>
    /\ Len(datasets) > Len(SeedDatasets)

\* C26: the DatasetFile records of an ingest have pairwise distinct filenames,
\* each storage_path is gs://<managed bucket>/datasets/<dataset_id>/<filename>,
\* and each filename is the last segment of its storage_path, also when the
\* listing holds objects with the same base name under different sub-prefixes.
C26_DistinctFilenames ==
    \A i \in 1..Len(a.files) :
        /\ a.files[i].storage_path = StoragePath(a.id, a.files[i].filename)
        /\ a.files[i].filename = LastSegment(a.files[i].storage_path.key)
        /\ \A j \in 1..Len(a.files) :
             i # j => a.files[i].filename # a.files[j].filename

\* C27: load_metadata fails with DatasetNotFound exactly when the root row is
\* absent; every other failure (connection checkout, a database error while
\* reading the root row, the files, the columns or the statistics) is
\* ConfigError.
C27_LoadMetadataErrors ==
    lm.pc = "done" =>
        LET r == lm.result[1] IN
        /\ (lm.fault = "none" /\ ~lm.present) =>
              ~r.ok /\ r.err.kind = "DatasetNotFound"
        /\ (~r.ok /\ r.err.kind = "DatasetNotFound") => ~lm.present
        /\ (lm.fault # "none" /\ lm.present) => ~r.ok /\ r.err.kind = "ConfigError"
        /\ lm.fault \in {"connection", "root"} => ~r.ok /\ r.err.kind = "ConfigError"

\* C30: whenever AddDataset returns success = false the catalog is as it was
\* before the call: no row of `datasets` or `dataset_files` carries the id the
\* call minted, so ListDatasets returns the same ids as before it.
C30_FailureLeavesCatalog ==
    \A r \in ingests :
        r.outcome # "ok" =>
            /\ r.id \notin DatasetIdsOf(datasets)
            /\ FilesOf(r.id) = {}

----------------------------------------------------------------------------
(* Claims about the channel of an ExecuteQuery stream *)

\* C29: every ExecuteQuery stream terminates.  The frames read followed by the
\* frames still in the channel are at every moment the frames sent (none is
\* dropped or reordered), the channel never holds more than 32 frames, and a
\* producer that has returned with the client still reading has sent Complete
\* as its last frame.  Once the task is spawned the producer returns, and
\* unless the client dropped the stream it reads every frame up to Complete.
C29_StreamTerminates ==
    /\ [](\A s \in Streams :
            /\ q[s].received \o q[s].chan = q[s].frames
            /\ Len(q[s].chan) <= CHANNEL_CAPACITY
            /\ Delivered(s) =>
                 /\ q[s].frames # <<>>
                 /\ IsType(q[s].frames[Len(q[s].frames)], "Complete")
                 /\ Len(CompleteFrames(q[s].frames)) = 1)
    /\ (q[HostStream].pc = "check") ~>
          (/\ q[HostStream].pc = "done"
           /\ \/ q[HostStream].dropped
              \/ /\ q[HostStream].received = q[HostStream].frames
                 /\ IsType(q[HostStream].frames[Len(q[HostStream].frames)], "Complete"))

\* The producer waits with chunks still to send: 32 frames are unread
C29_Witness ==
    /\ q[HostStream].pc = "chunks"
    /\ Len(q[HostStream].chan) = CHANNEL_CAPACITY
    /\ q[HostStream].received # <<>>

====
